---- MODULE Spec2Model ----
(***************************************************************************)
(* Software rasterizer of proyecto3-graficas: the framebuffer              *)
(* (src/src/framebuffer.rs), the renderer (src/src/renderer.rs), the mesh  *)
(* generators (src/src/mesh.rs) and the frame of the main loop             *)
(* (src/src/main.rs with skybox.rs, trail.rs, warp_effect.rs and           *)
(* camera.rs).                                                             *)
(*                                                                         *)
(* Numbers.  An f32 is modelled as a pair <<n, d>> with d >= 0:            *)
(*   d > 0   the finite value n/d, kept in lowest terms when stored;       *)
(*   <<1,0>> +infinity, <<-1,0>> -infinity, <<0,0>> NaN.                   *)
(* Arithmetic on finite values is exact.  Screen coordinates are fixed     *)
(* point with SubPix units per pixel (the pixel centre x + 0.5 is the      *)
(* integer SubPix*x + SubPix/2).  SpecF32 runs rasterize_triangle with     *)
(* the rounding of each f32 operation kept, at a significand of            *)
(* MANTISSA_DIGITS bits.                                                   *)
(*                                                                         *)
(* Specifications:                                                         *)
(*   Spec        clear and set_pixel on the framebuffer                    *)
(*   SpecRaster  front-facing triangles under the three depth policies     *)
(*   SpecCull    triangles the rasterizers are to reject                   *)
(*   SpecLine    lines and orbits over and under planet geometry           *)
(*   SpecF32     zero-area triangles under rounded arithmetic              *)
(*   SpecBlend   the overlay blend over planet colours                     *)
(*   SpecFrustum the visibility query is_in_frustum                        *)
(*   SpecMesh    create_sphere and create_ring                             *)
(*   SpecFrame   the iterations of the main loop, part by part             *)
(*   SpecBresenham  draw_line, one iteration of its loop at a time         *)
(*   SpecDepth   the skybox and biased meshes against the depth buffer     *)
(*   SpecPixel   WarpEffect::blend_pixel                                   *)
(*   SpecCamera  the speed keys of SpaceshipCamera::update                 *)
(*   SpecTrail   ShipTrail::update and clear                               *)
(*   SpecProximity  get_proximity_mode and the ship's draw                 *)
(*   SpecWarp    WarpEffect::start_warp and update                         *)
(*   SpecLoop    menu, warp and manual control of the main loop            *)
(*   SpecLoopFair  SpecLoop with the loop running and time advancing       *)
(***************************************************************************)
EXTENDS Integers, Sequences, FiniteSets, TLC

VARIABLES
    buffer,     \* Framebuffer.buffer : RGBA bytes, index 0 .. 4*W*H-1
    zbuffer,    \* Framebuffer.zbuffer: one depth per pixel, index 0 .. W*H-1
    ops,        \* draw calls made since the last clear (bounded by MaxOps);
                \* trail samples (MaxSamples), teleports during a warp (MaxRestarts)
    last,       \* history: the last operation, its arguments and what it did
    pre,        \* history: buffer and zbuffer as they were before `last`
    offered,    \* history: per pixel, the fragments offered to it since the clear
    main        \* the main loop: its position in the frame, the frame's inputs,
                \* the presentation texture, camera, warp, trail and flags,
                \* and (history) the frame's calls

vars == <<buffer, zbuffer, ops, last, pre, offered, main>>

----------------------------------------------------------------------------
(* Bounds of the model *)

\* Framebuffer::new(width, height): the model's framebuffer is W x H pixels.
W == 4
H == 4
\* Draw calls per epoch.
MaxOps == 2
\* Bits of significand kept by the rounded arithmetic of SpecF32 (24 in an f32).
MANTISSA_DIGITS == 4

\* Units per pixel of the fixed-point screen coordinates (pixel centre = +0.5).
SubPix == 2

----------------------------------------------------------------------------
(* f32 values *)

NaN == <<0, 0>>
INFINITY == <<1, 0>>
NEG_INFINITY == <<-1, 0>>

Abs(n) == IF n < 0 THEN -n ELSE n

\* The pairs that stand for f32 values.
F32V == Int \X Int

\* The arithmetic is defined on values: each operator applies a function.
gcd[a \in Nat, b \in Nat] == IF b = 0 THEN a ELSE gcd[b, a % b]
Gcd(a, b) == gcd[a, b]

\* The finite value n/d (d # 0) in lowest terms with a positive denominator.
rat[n \in Int, d \in Int] ==
    LET g == Gcd(Abs(n), Abs(d))
        s == IF d < 0 THEN -1 ELSE 1
    IN  <<s * (n \div g), s * (d \div g)>>
Rat(n, d) == rat[n, d]

is_finite(f) == f[2] # 0
is_nan(f) == f[1] = 0 /\ f[2] = 0

\* a < b on f32: false when either side is NaN.
flt[a \in F32V, b \in F32V] ==
    /\ ~is_nan(a)
    /\ ~is_nan(b)
    /\ IF a[2] = 0 /\ b[2] = 0 THEN a[1] < b[1] ELSE a[1] * b[2] < b[1] * a[2]
FLt(a, b) == flt[a, b]

FGt(a, b) == FLt(b, a)
FGe(a, b) == ~is_nan(a) /\ ~is_nan(b) /\ ~FLt(a, b)
FLe(a, b) == FGe(b, a)

\* a + b on f32 (exact on finite values).
fadd[a \in F32V, b \in F32V] ==
    IF is_nan(a) \/ is_nan(b) THEN NaN
    ELSE IF a[2] = 0 /\ b[2] = 0 THEN (IF a[1] = b[1] THEN a ELSE NaN)
    ELSE IF a[2] = 0 THEN a
    ELSE IF b[2] = 0 THEN b
    ELSE LET g == Gcd(a[2], b[2])
         IN  Rat(a[1] * (b[2] \div g) + b[1] * (a[2] \div g), (a[2] \div g) * b[2])
FAdd(a, b) == fadd[a, b]

Sign(n) == IF n < 0 THEN -1 ELSE IF n > 0 THEN 1 ELSE 0

\* a * b on f32 (exact on finite values).
fmul[a \in F32V, b \in F32V] ==
    IF is_nan(a) \/ is_nan(b) THEN NaN
    ELSE IF a[2] = 0 \/ b[2] = 0
         THEN (IF a[1] = 0 \/ b[1] = 0 THEN NaN ELSE <<Sign(a[1]) * Sign(b[1]), 0>>)
    ELSE LET x == Rat(a[1], b[2])
             y == Rat(b[1], a[2])
         IN  <<x[1] * y[1], x[2] * y[2]>>
FMul(a, b) == fmul[a, b]

----------------------------------------------------------------------------
(* Framebuffer (src/src/framebuffer.rs) *)

Pixels == 0 .. (W * H - 1)
Bytes == 0 .. (W * H * 4 - 1)

\* Color::new(r, g, b)
Color(r, g, b) == <<r, g, b>>

\* Framebuffer::new(width, height)
new == [buffer |-> [i \in Bytes |-> 0], zbuffer |-> [i \in Pixels |-> INFINITY]]

\* clear resetting the depth to the finite far plane 1.0 instead of +infinity.
mut_clear_depth_one(fb, color) ==
    [fb EXCEPT !.buffer = [i \in Bytes |->
                              IF i % 4 = 3 THEN 255 ELSE color[(i % 4) + 1]],
               !.zbuffer = [i \in Pixels |-> Rat(1, 1)]]

\* Framebuffer::clear(color)
clear(fb, color) ==
    [fb EXCEPT !.buffer = [i \in Bytes |->
                              IF i % 4 = 3 THEN 255 ELSE color[(i % 4) + 1]],
               !.zbuffer = [i \in Pixels |-> INFINITY]]

\* set_pixel without its z-test: the last fragment drawn wins.
mut_set_pixel_writes_noztest(fb, x, y, depth) ==
    /\ ~(x >= W \/ y >= H)
    /\ is_finite(depth)

\* set_pixel without its is_finite test.
mut_set_pixel_writes_nofinite(fb, x, y, depth) ==
    /\ ~(x >= W \/ y >= H)
    /\ FLt(depth, fb.zbuffer[y * W + x])

\* set_pixel with <= in place of < in its z-test.
mut_set_pixel_writes_le(fb, x, y, depth) ==
    /\ ~(x >= W \/ y >= H)
    /\ is_finite(depth)
    /\ FLe(depth, fb.zbuffer[y * W + x])

\* The two early returns of set_pixel and its z-test.
\* (Both returns come before `index` is computed: no index is formed for a
\* coordinate outside the framebuffer, so set_pixel cannot fault.)
set_pixel_writes(fb, x, y, depth) ==
    /\ ~(x >= W \/ y >= H)
    /\ is_finite(depth)
    /\ FLt(depth, fb.zbuffer[y * W + x])

\* set_pixel storing pixel (x, y) column by column, at index x * height + y.
mut_set_pixel_column_major(fb, x, y, color, depth) ==
    IF set_pixel_writes(fb, x, y, depth)
    THEN LET index == x * H + y
             idx == index * 4
         IN  [fb EXCEPT !.zbuffer[index] = depth,
                        !.buffer[idx] = color[1],
                        !.buffer[idx + 1] = color[2],
                        !.buffer[idx + 2] = color[3],
                        !.buffer[idx + 3] = 255]
    ELSE fb

\* Framebuffer::set_pixel(x, y, color, depth)
set_pixel(fb, x, y, color, depth) ==
    IF set_pixel_writes(fb, x, y, depth)
    THEN LET index == y * W + x
             idx == index * 4
         IN  [fb EXCEPT !.zbuffer[index] = depth,
                        !.buffer[idx] = color[1],
                        !.buffer[idx + 1] = color[2],
                        !.buffer[idx + 2] = color[3],
                        !.buffer[idx + 3] = 255]
    ELSE fb

\* RGB and alpha of the pixel at `index` of a framebuffer.
rgb_at(fb, index) == <<fb.buffer[index * 4], fb.buffer[index * 4 + 1], fb.buffer[index * 4 + 2]>>
alpha_at(fb, index) == fb.buffer[index * 4 + 3]

----------------------------------------------------------------------------
(* History kept beside the framebuffer while an operation runs *)

\* The framebuffer held in the variables.
FB == [buffer |-> buffer, zbuffer |-> zbuffer]

NoOffers == [i \in Pixels |-> {}]

\* The running state of an operation: the framebuffer, and the history fields
\*   offered  per pixel, the fragments passed to set_pixel (or blended) there
\*   cov      one entry per covered pixel of a triangle
\*   shaded   one entry per call of shader.fragment
\*   fault    TRUE once the operation has faulted (an index out of range)
Start ==
    [buffer |-> buffer, zbuffer |-> zbuffer, offered |-> offered,
     cov |-> {}, shaded |-> {}, fault |-> FALSE]

\* set_pixel, with the fragment recorded in the history when (x, y) is a pixel.
traced_set_pixel(st, x, y, color, depth, kind) ==
    LET st2 == set_pixel(st, x, y, color, depth)
    IN  IF x < W /\ y < H
        THEN [st2 EXCEPT !.offered[y * W + x] =
                 @ \cup {[depth |-> depth, color |-> color, kind |-> kind]}]
        ELSE st2

\* The least finite depth among a pixel's fragments, INFINITY when there is none.
LeastDepth(frags) ==
    LET fin == {f.depth : f \in {g \in frags : is_finite(g.depth)}}
    IN  IF fin = {} THEN INFINITY
        ELSE CHOOSE d \in fin : \A e \in fin : ~FLt(e, d)

----------------------------------------------------------------------------
(* Inputs of the framebuffer specification *)

ClearColors == {Color(5, 5, 15), Color(0, 0, 0)}
PixelColors == {Color(200, 100, 50), Color(10, 20, 30)}
\* Coordinates offered to set_pixel: three pixels (one off the diagonal) and the
\* first column and row outside.
CoordInputs == {<<0, 0>>, <<W - 1, H - 1>>, <<W - 1, 0>>, <<W, 0>>, <<0, H>>}
DepthInputs == {NaN, INFINITY, NEG_INFINITY, Rat(-1, 1), Rat(0, 1), Rat(1, 2), Rat(1, 1)}

----------------------------------------------------------------------------
(* Actions of the framebuffer specification *)

\* Positions of the camera, the bodies and the trail lie on one axis: a Vec3
\* is modelled by its coordinate on it, the other two being zero.

\* ShipTrail::new(200): the model's trail keeps MaxTrail positions.
MaxTrail == 2

\* WarpEffect::new()
WarpEffect_new ==
    [active |-> FALSE, progress |-> Rat(0, 1), duration |-> Rat(3, 2),
     start_pos |-> Rat(0, 1), end_pos |-> Rat(0, 1), elapsed |-> Rat(0, 1)]

\* SpaceshipCamera::new(position): the fields the model follows.
SpaceshipCamera_new(position) ==
    [position |-> position, third_person |-> TRUE,
     warp_mode |-> FALSE, warp_multiplier |-> Rat(1, 1), hyper_warp |-> FALSE]

\* ShipTrail::new(max_length)
ShipTrail_new(max_length) ==
    [positions |-> <<>>, max_length |-> max_length, sample_interval |-> Rat(1, 10),
     last_sample_time |-> Rat(0, 1)]

\* main before its loop: the flags as they are initialised, the trail empty,
\* no warp, and the texture loaded from an image of Color::BLACK.
main_start ==
    [pc |-> "update",
     frame |-> [show_orbits |-> TRUE, show_trail |-> TRUE, third_person |-> TRUE,
                proximity_mode |-> "Normal", bodies |-> <<>>, trail |-> <<>>,
                warp |-> [active |-> FALSE]],
     texture |-> [i \in Bytes |-> IF i % 4 = 3 THEN 255 ELSE 0],
     calls |-> <<>>,
     camera |-> SpaceshipCamera_new(Rat(8000, 1)),
     warp_effect |-> WarpEffect_new,
     ship_trail |-> ShipTrail_new(MaxTrail),
     paused |-> FALSE, show_menu |-> FALSE, frame_time |-> Rat(0, 1)]

Init ==
    /\ buffer = new.buffer
    /\ zbuffer = new.zbuffer
    /\ ops = 0
    /\ last = [op |-> "new"]
    /\ pre = new
    /\ offered = NoOffers
    /\ main = main_start

\* What an operation called on its own does with the state it ends in.
Finish(st) ==
    /\ buffer' = st.buffer
    /\ zbuffer' = st.zbuffer
    /\ offered' = st.offered
    /\ pre' = FB
    /\ UNCHANGED main

Clear(color) ==
    /\ Finish([clear(Start, color) EXCEPT !.offered = NoOffers])
    /\ ops' = 0
    /\ last' = [op |-> "clear", color |-> color]

SetPixel(x, y, color, depth) ==
    /\ ops < MaxOps
    /\ Finish(traced_set_pixel(Start, x, y, color, depth, "set_pixel"))
    /\ ops' = ops + 1
    /\ last' = [op |-> "set_pixel", x |-> x, y |-> y, color |-> color, depth |-> depth]

Next ==
    \/ \E color \in ClearColors : Clear(color)
    \/ \E c \in CoordInputs, color \in PixelColors, depth \in DepthInputs :
           SetPixel(c[1], c[2], color, depth)

Spec == Init /\ [][Next]_vars

----------------------------------------------------------------------------
(* Claims on the framebuffer, checked under Spec *)

LastInBounds == last.op = "set_pixel" /\ last.x < W /\ last.y < H
LastIndex == last.y * W + last.x

\* C1: within one epoch a set_pixel call with a finite depth d2 at an in-bounds
\* pixel whose stored depth is d1 writes colour and depth iff d2 < d1 (an equal
\* depth does not overwrite); the stored depth of a pixel never increases and
\* always equals the least finite depth offered to that pixel since the clear.
C1_NearestWins ==
    /\ (LastInBounds /\ is_finite(last.depth)) =>
          IF FLt(last.depth, pre.zbuffer[LastIndex])
          THEN /\ zbuffer[LastIndex] = last.depth
               /\ rgb_at(FB, LastIndex) = last.color
               /\ alpha_at(FB, LastIndex) = 255
          ELSE /\ zbuffer[LastIndex] = pre.zbuffer[LastIndex]
               /\ rgb_at(FB, LastIndex) = rgb_at(pre, LastIndex)
    /\ last.op = "set_pixel" => \A i \in Pixels : ~FLt(pre.zbuffer[i], zbuffer[i])
    /\ \A i \in Pixels : zbuffer[i] = LeastDepth(offered[i])

\* A second set_pixel at the same pixel with the depth already stored there and
\* another colour: it was not written.
C1_Witness ==
    /\ LastInBounds
    /\ is_finite(last.depth)
    /\ pre.zbuffer[LastIndex] = last.depth
    /\ rgb_at(pre, LastIndex) # last.color
    /\ rgb_at(FB, LastIndex) = rgb_at(pre, LastIndex)

\* C2: after clear(color), whatever the framebuffer held, every pixel reads
\* (color.r, color.g, color.b) with alpha 255 and every depth is +infinity, the
\* sentinel of Framebuffer::new; so the first set_pixel of an epoch with a
\* finite depth at an in-bounds pixel is written.
C2_ClearResets ==
    /\ last.op = "clear" =>
          \A i \in Pixels :
              /\ rgb_at(FB, i) = last.color
              /\ alpha_at(FB, i) = 255
              /\ zbuffer[i] = INFINITY
              /\ zbuffer[i] = new.zbuffer[i]
    /\ (LastInBounds /\ is_finite(last.depth) /\ ops = 1) =>
          /\ zbuffer[LastIndex] = last.depth
          /\ rgb_at(FB, LastIndex) = last.color
          /\ alpha_at(FB, LastIndex) = 255

\* A clear of a framebuffer that held a written pixel of another colour.
C2_Witness ==
    /\ last.op = "clear"
    /\ \E i \in Pixels : pre.zbuffer[i] # INFINITY /\ rgb_at(pre, i) # last.color

\* C3: set_pixel with x >= width or y >= height, or with a non-finite depth
\* (NaN, +infinity, -infinity), leaves every byte of the colour buffer and every
\* entry of the depth buffer unchanged.
C3_RejectedIsNoOp ==
    (/\ last.op = "set_pixel"
     /\ (last.x >= W \/ last.y >= H \/ ~is_finite(last.depth)))
    => (buffer = pre.buffer /\ zbuffer = pre.zbuffer)

\* set_pixel with depth -infinity at an in-bounds pixel that holds +infinity:
\* the z-test alone would pass.
C3_Witness ==
    /\ LastInBounds
    /\ last.depth = NEG_INFINITY
    /\ pre.zbuffer[LastIndex] = INFINITY
    /\ buffer = pre.buffer

\* C19: after Framebuffer::new(width, height) and any sequence of clear and
\* set_pixel calls the colour array has width*height*4 entries and the depth
\* array width*height; a fragment that set_pixel accepts for pixel (x, y) is
\* stored at depth index y*width+x and at colour bytes 4*(y*width+x) ..
\* 4*(y*width+x)+3, and at no other index.
C19_Lengths ==
    /\ DOMAIN buffer = 0 .. (W * H * 4 - 1)
    /\ DOMAIN zbuffer = 0 .. (W * H - 1)

----------------------------------------------------------------------------
(* Renderer: vertex transform (src/src/renderer.rs) *)

Zero == Rat(0, 1)
One == Rat(1, 1)
Half == Rat(1, 2)
MinusOne == Rat(-1, 1)

FNeg(a) == <<-a[1], a[2]>>
FSub(a, b) == FAdd(a, FNeg(b))
FAbs(a) == <<Abs(a[1]), a[2]>>

\* a / b on f32 (exact on finite values; x/0 is an infinity, 0/0 is NaN).
fdiv[a \in F32V, b \in F32V] ==
    IF is_nan(a) \/ is_nan(b) THEN NaN
    ELSE IF a[2] = 0 /\ b[2] = 0 THEN NaN
    ELSE IF a[2] = 0 THEN <<a[1] * (IF b[1] < 0 THEN -1 ELSE 1), 0>>
    ELSE IF b[2] = 0 THEN Zero
    ELSE IF b[1] = 0 THEN <<Sign(a[1]), 0>>
    ELSE LET x == Rat(a[1], b[1])
             y == Rat(b[2], a[2])
         IN  Rat(x[1] * y[1], x[2] * y[2])
FDiv(a, b) == fdiv[a, b]

\* A screen coordinate stored in fixed point: <<n, SubPix>> is n/SubPix pixels.
ToFixed(f) == IF is_finite(f) THEN <<(f[1] * SubPix) \div f[2], SubPix>> ELSE f

\* The screen position a degenerate vertex is given (both coordinates).
OffScreen == -1000

\* The |w| below which transform_vertex takes the vertex as degenerate: 1e-6.
EpsW == <<1, 1000000>>

\* A mesh vertex as the renderer's matrices leave it: clip_pos = mvp * pos4 and
\* world_pos = (model_matrix * pos4).xyz.  (world_normal only feeds the shader.)
Vtx(cx, cy, cz, cw) ==
    [clip_pos |-> <<Rat(cx, 1), Rat(cy, 1), Rat(cz, 1), Rat(cw, 1)>>,
     world_pos |-> <<Rat(cx, 1), Rat(cy, 1), Rat(cz, 1)>>]

\* A vertex whose position is NaN.
VtxNaN == [clip_pos |-> <<NaN, NaN, NaN, NaN>>, world_pos |-> <<NaN, NaN, NaN>>]

\* Renderer::transform_vertex
transform_vertex(vertex) ==
    LET w == vertex.clip_pos[4]
    IN  IF FLt(FAbs(w), EpsW)
        THEN [screen_pos |-> <<ToFixed(Rat(OffScreen, 1)), ToFixed(Rat(OffScreen, 1))>>,
              depth |-> One,
              world_pos |-> vertex.world_pos]
        ELSE LET ndc == [i \in 1 .. 3 |-> FDiv(vertex.clip_pos[i], w)]
             IN  [screen_pos |->
                      <<ToFixed(FMul(FMul(FAdd(ndc[1], One), Half), Rat(W, 1))),
                        ToFixed(FMul(FMul(FSub(One, ndc[2]), Half), Rat(H, 1)))>>,
                  depth |-> ndc[3],
                  world_pos |-> vertex.world_pos]

\* Renderer::is_valid_vertex
is_valid_vertex(v) ==
    /\ is_finite(v.screen_pos[1])
    /\ is_finite(v.screen_pos[2])
    /\ is_finite(v.depth)
    /\ is_finite(v.world_pos[1])
    /\ is_finite(v.world_pos[2])
    /\ is_finite(v.world_pos[3])

----------------------------------------------------------------------------
(* Renderer: the tests of a triangle before it is filled *)

\* Screen coordinates of a valid vertex, in SubPix units.
SX(v) == v.screen_pos[1][1]
SY(v) == v.screen_pos[2][1]

Min2(a, b) == IF a < b THEN a ELSE b
Max2(a, b) == IF a > b THEN a ELSE b

\* `cross` of the back-face test: edge1 x edge2, in SubPix^2 units.
cross(v0, v1, v2) ==
    (SX(v1) - SX(v0)) * (SY(v2) - SY(v0)) - (SY(v1) - SY(v0)) * (SX(v2) - SX(v0))

\* f32::floor and f32::ceil of a screen coordinate, in pixels.
FloorPx(n) == n \div SubPix
CeilPx(n) == -((-n) \div SubPix)

\* `as usize` of a float: negative values saturate to 0.
AsUsize(n) == IF n < 0 THEN 0 ELSE n

\* The bounding box without `.min(self.width - 1.0)` and `.min(self.height - 1.0)`.
mut_bbox_unclamped_max(v0, v1, v2) ==
    [min_x |-> AsUsize(Max2(FloorPx(Min2(Min2(SX(v0), SX(v1)), SX(v2))), 0)),
     max_x |-> AsUsize(CeilPx(Max2(Max2(SX(v0), SX(v1)), SX(v2)))),
     min_y |-> AsUsize(Max2(FloorPx(Min2(Min2(SY(v0), SY(v1)), SY(v2))), 0)),
     max_y |-> AsUsize(CeilPx(Max2(Max2(SY(v0), SY(v1)), SY(v2))))]

\* min_x, max_x, min_y, max_y of the three rasterizers.
bbox(v0, v1, v2) ==
    [min_x |-> AsUsize(Max2(FloorPx(Min2(Min2(SX(v0), SX(v1)), SX(v2))), 0)),
     max_x |-> AsUsize(Min2(CeilPx(Max2(Max2(SX(v0), SX(v1)), SX(v2))), W - 1)),
     min_y |-> AsUsize(Max2(FloorPx(Min2(Min2(SY(v0), SY(v1)), SY(v2))), 0)),
     max_y |-> AsUsize(Min2(CeilPx(Max2(Max2(SY(v0), SY(v1)), SY(v2))), H - 1))]

\* A vertex depth outside [-1, 1].
depth_out_of_range(v) == FLt(v.depth, MinusOne) \/ FGt(v.depth, One)

\* The back-face test with the winding convention reversed.
mut_culled_reversed(v0, v1, v2) == cross(v0, v1, v2) >= 0

\* The back-face test of the three rasterizers: cross <= 0.0.
culled(v0, v1, v2) == cross(v0, v1, v2) <= 0

\* The returns of rasterize_triangle and rasterize_triangle_with_bias that
\* precede the fill loop.
skips_triangle(v0, v1, v2) ==
    \/ ~is_valid_vertex(v0) \/ ~is_valid_vertex(v1) \/ ~is_valid_vertex(v2)
    \/ culled(v0, v1, v2)
    \/ depth_out_of_range(v0) \/ depth_out_of_range(v1) \/ depth_out_of_range(v2)
    \/ LET bb == bbox(v0, v1, v2)
       IN  \/ bb.min_x >= bb.max_x \/ bb.min_y >= bb.max_y
           \/ bb.max_x - bb.min_x > W * 2 \/ bb.max_y - bb.min_y > H * 2

\* The returns of rasterize_triangle_overlay that precede the fill loop.
skips_triangle_overlay(v0, v1, v2) ==
    \/ ~is_valid_vertex(v0) \/ ~is_valid_vertex(v1) \/ ~is_valid_vertex(v2)
    \/ culled(v0, v1, v2)
    \/ FGt(v0.depth, One) \/ FGt(v1.depth, One) \/ FGt(v2.depth, One)
    \/ LET bb == bbox(v0, v1, v2)
       IN  bb.min_x >= bb.max_x \/ bb.min_y >= bb.max_y

\* 1 / 1e-8, the bound on |denom| in barycentric.
DenomEpsInv == 100000000

\* barycentric(p, a, b, c) for the centre p of pixel (x, y): (u, v, w).
barycentric(x, y, a, b, c) ==
    LET px == SubPix * x + SubPix \div 2
        py == SubPix * y + SubPix \div 2
        v0x == SX(b) - SX(a)
        v0y == SY(b) - SY(a)
        v1x == SX(c) - SX(a)
        v1y == SY(c) - SY(a)
        v2x == px - SX(a)
        v2y == py - SY(a)
        d00 == v0x * v0x + v0y * v0y
        d01 == v0x * v1x + v0y * v1y
        d11 == v1x * v1x + v1y * v1y
        d20 == v2x * v0x + v2y * v0y
        d21 == v2x * v1x + v2y * v1y
        denom == d00 * d11 - d01 * d01
    IN  \* |denom| / SubPix^4 < 1e-8
        IF Abs(denom) <= (SubPix * SubPix * SubPix * SubPix - 1) \div DenomEpsInv
        THEN <<Zero, Zero, Zero>>
        ELSE LET vn == d11 * d20 - d01 * d21
                 wn == d00 * d21 - d01 * d20
             IN  <<Rat(denom - vn - wn, denom), Rat(vn, denom), Rat(wn, denom)>>

\* w0 >= 0.0 && w1 >= 0.0 && w2 >= 0.0
covered(bc) == FGe(bc[1], Zero) /\ FGe(bc[2], Zero) /\ FGe(bc[3], Zero)

\* w0 * a0 + w1 * a1 + w2 * a2
interpolate(bc, a0, a1, a2) ==
    FAdd(FAdd(FMul(bc[1], a0), FMul(bc[2], a1)), FMul(bc[3], a2))

\* The colours of the shaders: shader.fragment(world_pos, world_normal, time)
\* is a pure function, modelled by shaders of one colour each.
\* "sun", "rock" and "dust" stand for the shaders of the bodies, "metal" and
\* "steel" for the ship's.
fragment(shader) ==
    CASE shader = "sun" -> Color(255, 200, 40)
      [] shader = "rock" -> Color(120, 110, 100)
      [] shader = "dust" -> Color(103, 88, 93)
      [] shader = "metal" -> Color(180, 190, 200)
      [] shader = "steel" -> Color(183, 188, 193)
      [] shader = "ring" -> Color(200, 180, 140)

----------------------------------------------------------------------------
(* Renderer: the fill loops of the three policies.  The body of a loop is
   written as a chain of operators, each taking what the code has computed so
   far: the barycentric weights, then the interpolated depth and position. *)

\* History: a covered pixel of triangle `tri`, with the interpolated depth, the
\* depth the pixel held before the fragment and the depth and colour after it.
LogCovered(st, tri, index, depth, cur) ==
    [st EXCEPT !.cov = @ \cup {[tri |-> tri, index |-> index, depth |-> depth,
                                 cur |-> cur, now |-> st.zbuffer[index],
                                 rgb |-> rgb_at(st, index)]}]

\* History: a call of shader.fragment for a pixel of triangle `tri`.
LogShaded(st, tri, index) ==
    [st EXCEPT !.shaded = @ \cup {[tri |-> tri, index |-> index]}]

\* world_pos.x, .y and .z are all finite.
finite3(p) == is_finite(p[1]) /\ is_finite(p[2]) /\ is_finite(p[3])

\* v0.world_pos * w0 + v1.world_pos * w1 + v2.world_pos * w2
interpolate3(bc, v0, v1, v2) ==
    [i \in 1 .. 3 |-> interpolate(bc, v0.world_pos[i], v1.world_pos[i], v2.world_pos[i])]

\* rasterize_triangle, a covered pixel: the depth and world_pos checks, the
\* shader call and set_pixel.
standard_shade(st, shader, tri, x, y, depth, world_pos) ==
    IF \/ ~is_finite(depth) \/ FLt(depth, MinusOne) \/ FGt(depth, One)
       \/ ~finite3(world_pos)
    THEN LogCovered(st, tri, y * W + x, depth, st.zbuffer[y * W + x])
    ELSE LogCovered(
             traced_set_pixel(LogShaded(st, tri, y * W + x),
                              x, y, fragment(shader), depth, "mesh"),
             tri, y * W + x, depth, st.zbuffer[y * W + x])

\* rasterize_triangle, the coverage test on the weights bc of pixel (x, y).
standard_covered(st, v0, v1, v2, shader, tri, x, y, bc) ==
    IF ~covered(bc) THEN st
    ELSE standard_shade(st, shader, tri, x, y,
                        interpolate(bc, v0.depth, v1.depth, v2.depth),
                        interpolate3(bc, v0, v1, v2))

\* The body of the loops of rasterize_triangle for pixel (x, y).
fragment_standard(st, v0, v1, v2, shader, tri, x, y) ==
    standard_covered(st, v0, v1, v2, shader, tri, x, y, barycentric(x, y, v0, v1, v2))

\* The biased fill storing the interpolated depth instead of the biased one.
mut_with_bias_shade_stores_unbiased(st, shader, depth_bias, tri, x, y, depth, world_pos) ==
    LET biased_depth == FAdd(depth, depth_bias)
    IN  IF \/ ~is_finite(biased_depth)
           \/ FLt(biased_depth, MinusOne) \/ FGt(biased_depth, One)
           \/ ~finite3(world_pos)
        THEN LogCovered(st, tri, y * W + x, depth, st.zbuffer[y * W + x])
        ELSE LogCovered(
                 traced_set_pixel(LogShaded(st, tri, y * W + x),
                                  x, y, fragment(shader), depth, "bias"),
                 tri, y * W + x, depth, st.zbuffer[y * W + x])

\* rasterize_triangle_with_bias with its range check on the unbiased depth.
mut_with_bias_shade_checks_unbiased(st, shader, depth_bias, tri, x, y, depth, world_pos) ==
    LET biased_depth == FAdd(depth, depth_bias)
    IN  IF \/ ~is_finite(depth)
           \/ FLt(depth, MinusOne) \/ FGt(depth, One)
           \/ ~finite3(world_pos)
        THEN LogCovered(st, tri, y * W + x, depth, st.zbuffer[y * W + x])
        ELSE LogCovered(
                 traced_set_pixel(LogShaded(st, tri, y * W + x),
                                  x, y, fragment(shader), biased_depth, "bias"),
                 tri, y * W + x, depth, st.zbuffer[y * W + x])

\* rasterize_triangle_with_bias, a covered pixel: biased_depth, its check and the
\* world_pos check, the shader call and set_pixel with biased_depth.
with_bias_shade(st, shader, depth_bias, tri, x, y, depth, world_pos) ==
    LET biased_depth == FAdd(depth, depth_bias)
    IN  IF \/ ~is_finite(biased_depth)
           \/ FLt(biased_depth, MinusOne) \/ FGt(biased_depth, One)
           \/ ~finite3(world_pos)
        THEN LogCovered(st, tri, y * W + x, depth, st.zbuffer[y * W + x])
        ELSE LogCovered(
                 traced_set_pixel(LogShaded(st, tri, y * W + x),
                                  x, y, fragment(shader), biased_depth, "bias"),
                 tri, y * W + x, depth, st.zbuffer[y * W + x])

\* rasterize_triangle_with_bias, the coverage test on the weights bc.
with_bias_covered(st, v0, v1, v2, shader, depth_bias, tri, x, y, bc) ==
    IF ~covered(bc) THEN st
    ELSE with_bias_shade(st, shader, depth_bias, tri, x, y,
                         interpolate(bc, v0.depth, v1.depth, v2.depth),
                         interpolate3(bc, v0, v1, v2))

\* The body of the loops of rasterize_triangle_with_bias for pixel (x, y).
fragment_with_bias(st, v0, v1, v2, shader, depth_bias, tri, x, y) ==
    with_bias_covered(st, v0, v1, v2, shader, depth_bias, tri, x, y,
                      barycentric(x, y, v0, v1, v2))

\* The stored depth below which the overlay leaves a pixel alone: -0.9.
OverlayNear == Rat(-9, 10)

\* 2^k
RECURSIVE Pow2(_)
Pow2(k) == IF k = 0 THEN 1 ELSE 2 * Pow2(k - 1)

\* The f32 arithmetic of the blend.  A value is <<hi, lo>>, standing for
\* (hi * 2^16 + lo) / 2^24 with lo < 2^16; an f32 has 24 bits of significand.
Wide(n) == <<n \div 65536, n % 65536>>

\* `let alpha = 0.95;` as f32: 15938355 / 2^24.
alpha == 15938355

\* channel as f32 * factor, exact (channel <= 255).
WScale(channel, factor) ==
    <<channel * factor[1] + (channel * factor[2]) \div 65536,
      (channel * factor[2]) % 65536>>

\* a + b, exact.
WAdd(a, b) == <<a[1] + b[1] + (a[2] + b[2]) \div 65536, (a[2] + b[2]) % 65536>>

\* The number of bits of n.
RECURSIVE BitLen(_)
BitLen(n) == IF n = 0 THEN 0 ELSE 1 + BitLen(n \div 2)

\* q * 2^k as a value.
WShift(q, k) == <<q \div Pow2(16 - k), (q % Pow2(16 - k)) * Pow2(k)>>

\* The value of quotient q and remainder r after dropping k bits, rounded to
\* nearest, ties to even.
WRoundQ(q, r, k) ==
    WShift(IF 2 * r > Pow2(k) \/ (2 * r = Pow2(k) /\ q % 2 = 1) THEN q + 1 ELSE q, k)

\* The f32 nearest to an exact value below 256: its last k bits are dropped
\* so that 24 remain.
WRoundAt(w, k) == WRoundQ(w[1] * Pow2(16 - k) + w[2] \div Pow2(k), w[2] % Pow2(k), k)
WRound(w) == IF w[1] < 256 THEN w ELSE WRoundAt(w, BitLen(w[1]) - 8)

\* (color as f32 * alpha + existing as f32 * (1.0 - alpha)) as u8, with 0.05
\* for 1.0 - alpha.
mut_blend_weights_swapped(color, existing) ==
    WRound(WAdd(WRound(WScale(color, Wide(Pow2(24) - alpha))),
                WRound(WScale(existing, Wide(alpha)))))[1] \div 256

\* (color.r as f32 * alpha + framebuffer.buffer[idx] as f32 * (1.0 - alpha)) as u8
\* of rasterize_triangle_overlay: each product and the sum round to f32, and
\* `as u8` truncates.  (1.0 - alpha is exact in f32.)
blend(color, existing) ==
    WRound(WAdd(WRound(WScale(color, Wide(alpha))),
                WRound(WScale(existing, Wide(Pow2(24) - alpha)))))[1] \div 256

\* The overlay fill writing the fragment through set_pixel, depth included.
mut_overlay_shade_writes_depth(st, shader, tri, x, y, depth, world_pos) ==
    IF FLt(st.zbuffer[y * W + x], OverlayNear) \/ ~finite3(world_pos)
    THEN LogCovered(st, tri, y * W + x, depth, st.zbuffer[y * W + x])
    ELSE LogCovered(
             traced_set_pixel(LogShaded(st, tri, y * W + x),
                              x, y, fragment(shader), depth, "overlay"),
             tri, y * W + x, depth, st.zbuffer[y * W + x])

\* rasterize_triangle_overlay, a covered pixel: the test of the stored depth
\* against -0.9, the world_pos check, the shader call and the blend into the
\* colour bytes.  The depth buffer is not written.
overlay_shade(st, shader, tri, x, y, depth, world_pos) ==
    IF FLt(st.zbuffer[y * W + x], OverlayNear) \/ ~finite3(world_pos)
    THEN LogCovered(st, tri, y * W + x, depth, st.zbuffer[y * W + x])
    ELSE LogCovered(
             [LogShaded(st, tri, y * W + x) EXCEPT
                 !.buffer[(y * W + x) * 4] = blend(fragment(shader)[1], @),
                 !.buffer[(y * W + x) * 4 + 1] = blend(fragment(shader)[2], @),
                 !.buffer[(y * W + x) * 4 + 2] = blend(fragment(shader)[3], @),
                 !.buffer[(y * W + x) * 4 + 3] = 255,
                 !.offered[y * W + x] = @ \cup
                     {[depth |-> depth, color |-> fragment(shader), kind |-> "overlay"]}],
             tri, y * W + x, depth, st.zbuffer[y * W + x])

\* rasterize_triangle_overlay, the coverage test on the weights bc.
overlay_covered(st, v0, v1, v2, shader, tri, x, y, bc) ==
    IF ~covered(bc) THEN st
    ELSE overlay_shade(st, shader, tri, x, y,
                       interpolate(bc, v0.depth, v1.depth, v2.depth),
                       interpolate3(bc, v0, v1, v2))

\* The body of the loops of rasterize_triangle_overlay for pixel (x, y).
fragment_overlay(st, v0, v1, v2, shader, tri, x, y) ==
    overlay_covered(st, v0, v1, v2, shader, tri, x, y, barycentric(x, y, v0, v1, v2))

\* Pixel i lies in min_x..=max_x, min_y..=max_y.
in_box(bb, i) ==
    /\ bb.min_x <= i % W /\ i % W <= bb.max_x
    /\ bb.min_y <= i \div W /\ i \div W <= bb.max_y

\* for y in min_y..=max_y { for x in min_x..=max_x { ... } }.  An iteration
\* reads and writes its own pixel only (and adds its own history entries), so
\* the loop is the iterations taken pixel by pixel from the state st before it:
\* iter[i + 1] is the state after the iteration for pixel i, st outside the box.
fill(st, iter) ==
    [st EXCEPT
        !.zbuffer = [i \in Pixels |-> iter[i + 1].zbuffer[i]],
        !.buffer = [k \in Bytes |-> iter[k \div 4 + 1].buffer[k]],
        !.offered = [i \in Pixels |-> iter[i + 1].offered[i]],
        !.cov = UNION {iter[i + 1].cov : i \in Pixels},
        !.shaded = UNION {iter[i + 1].shaded : i \in Pixels}]

\* Renderer::rasterize_triangle
rasterize_triangle(st, v0, v1, v2, shader, tri) ==
    IF skips_triangle(v0, v1, v2) THEN st
    ELSE fill(st, [k \in 1 .. W * H |->
                      IF in_box(bbox(v0, v1, v2), k - 1)
                      THEN fragment_standard(st, v0, v1, v2, shader, tri,
                                             (k - 1) % W, (k - 1) \div W)
                      ELSE st] \o <<>>)

\* Renderer::rasterize_triangle_with_bias
rasterize_triangle_with_bias(st, v0, v1, v2, shader, depth_bias, tri) ==
    IF skips_triangle(v0, v1, v2) THEN st
    ELSE fill(st, [k \in 1 .. W * H |->
                      IF in_box(bbox(v0, v1, v2), k - 1)
                      THEN fragment_with_bias(st, v0, v1, v2, shader, depth_bias, tri,
                                              (k - 1) % W, (k - 1) \div W)
                      ELSE st] \o <<>>)

\* Renderer::rasterize_triangle_overlay
rasterize_triangle_overlay(st, v0, v1, v2, shader, tri) ==
    IF skips_triangle_overlay(v0, v1, v2) THEN st
    ELSE fill(st, [k \in 1 .. W * H |->
                      IF in_box(bbox(v0, v1, v2), k - 1)
                      THEN fragment_overlay(st, v0, v1, v2, shader, tri,
                                            (k - 1) % W, (k - 1) \div W)
                      ELSE st] \o <<>>)

\* transformed_vertices of the three render_mesh functions.
transformed_vertices(mesh) ==
    [k \in 1 .. Len(mesh.vertices) |-> transform_vertex(mesh.vertices[k])]

\* for i in (0..mesh.indices.len()).step_by(3) { ... } from index i on.  Reading
\* indices[i + 1] or indices[i + 2] past the end is a fault that ends the call.
RECURSIVE triangles(_, _, _, _, _, _, _)
triangles(policy, st, tv, indices, shader, depth_bias, i) ==
    IF i >= Len(indices) THEN st
    ELSE IF i + 2 >= Len(indices) THEN [st EXCEPT !.fault = TRUE]
    ELSE LET i0 == indices[i + 1]
             i1 == indices[i + 2]
             i2 == indices[i + 3]
             tri == i \div 3
         IN  triangles(
                 policy,
                 IF i0 < Len(tv) /\ i1 < Len(tv) /\ i2 < Len(tv)
                 THEN CASE policy = "standard" ->
                               rasterize_triangle(st, tv[i0 + 1], tv[i1 + 1], tv[i2 + 1],
                                                  shader, tri)
                        [] policy = "bias" ->
                               rasterize_triangle_with_bias(
                                   st, tv[i0 + 1], tv[i1 + 1], tv[i2 + 1],
                                   shader, depth_bias, tri)
                        [] policy = "overlay" ->
                               rasterize_triangle_overlay(
                                   st, tv[i0 + 1], tv[i1 + 1], tv[i2 + 1], shader, tri)
                 ELSE st,
                 tv, indices, shader, depth_bias, i + 3)

\* Renderer::render_mesh
render_mesh(st, mesh, shader) ==
    triangles("standard", st, transformed_vertices(mesh), mesh.indices, shader, Zero, 0)

\* Renderer::render_mesh_with_bias
render_mesh_with_bias(st, mesh, shader, depth_bias) ==
    triangles("bias", st, transformed_vertices(mesh), mesh.indices, shader, depth_bias, 0)

\* Renderer::render_mesh_overlay
render_mesh_overlay(st, mesh, shader) ==
    triangles("overlay", st, transformed_vertices(mesh), mesh.indices, shader, Zero, 0)

----------------------------------------------------------------------------
(* Inputs of the rasterizer specification *)

\* The vertices of a mesh: the four corners of the screen and its centre at the
\* given clip-space z (w = 2), a vertex with w = 0, and a vertex that is NaN.
\*    0: top left   1: top right   2: bottom left   3: bottom right   4: centre
\*    5: w = 0      6: NaN
Pool(zTL, zTR, zBL, zBR, zC) ==
    <<Vtx(-2, 2, zTL, 2), Vtx(2, 2, zTR, 2), Vtx(-2, -2, zBL, 2), Vtx(2, -2, zBR, 2),
      Vtx(0, 0, zC, 2), Vtx(1, 1, 0, 0), VtxNaN>>

NearPool == Pool(-1, -1, -1, -1, -1)      \* depth -1/2 everywhere
FarPool == Pool(1, 1, 1, 1, 1)            \* depth 1/2 everywhere
SlopePool == Pool(-2, 0, 0, 2, 0)         \* depth -1 top left to 1 bottom right
BeyondPool == Pool(3, 1, 1, 1, 1)         \* top left beyond the far plane
BeforePool == Pool(-3, -1, -1, -1, -1)    \* top left before the near plane

\* Vertices off the screen, at depth 0.  0, 1, 2: a triangle with corners
\* (-W, -H), (3W, -H), (-W, 3H) that contains the screen.  3, 4, 5: a triangle right of the screen.
\* 6, 7, 8: a triangle left of the screen.
WidePool ==
    <<Vtx(-6, 6, 0, 2), Vtx(10, 6, 0, 2), Vtx(-6, -10, 0, 2),
      Vtx(3, 2, 0, 2), Vtx(6, 2, 0, 2), Vtx(3, -2, 0, 2),
      Vtx(-6, 2, 0, 2), Vtx(-3, 2, 0, 2), Vtx(-6, -2, 0, 2)>>

FrontLists == {<<0, 1, 2>>, <<0, 1, 3>>}
RejectLists ==
    {<<0, 2, 1>>,           \* clockwise
     <<0, 0, 1>>,           \* two coincident vertices
     <<0, 4, 3>>,           \* collinear vertices
     <<3, 5, 1>>,           \* a vertex with w = 0
     <<0, 6, 2>>,           \* a NaN vertex
     <<0, 1, 7>>}           \* an index past the vertices

Mesh(vertices, indices) == [vertices |-> vertices, indices |-> indices]

\* Front-facing triangles at three depth profiles.
FrontMeshes == {Mesh(p, l) : p \in {NearPool, FarPool, SlopePool}, l \in FrontLists}

BodyShaders == {"sun", "rock"}
ShipShaders == {"metal"}
\* The biases main passes: -0.5 and -0.05.
Biases == {Rat(-1, 2), Rat(-1, 20)}

----------------------------------------------------------------------------
(* Actions of the rasterizer specifications *)

\* framebuffer.clear(Color::new(5, 5, 15)) at the start of a frame of main; the
\* history starts again with the epoch.
ClearFrame ==
    LET st == [clear(Start, Color(5, 5, 15)) EXCEPT !.offered = NoOffers]
    IN  /\ buffer' = st.buffer
        /\ zbuffer' = st.zbuffer
        /\ offered' = st.offered
        /\ pre' = [buffer |-> st.buffer, zbuffer |-> st.zbuffer]
        /\ ops' = 0
        /\ last' = [op |-> "clear", color |-> Color(5, 5, 15)]
        /\ UNCHANGED main

\* A draw call of a frame: main draws only after the frame's clear.
Draw(op, st, mesh, shader, depth_bias) ==
    /\ ops < MaxOps
    /\ last.op # "new"
    /\ Finish(st)
    /\ ops' = ops + 1
    /\ last' = [op |-> op, mesh |-> mesh, shader |-> shader, depth_bias |-> depth_bias,
                cov |-> st.cov, shaded |-> st.shaded, fault |-> st.fault]

RenderMesh(mesh, shader) ==
    Draw("render_mesh", render_mesh(Start, mesh, shader), mesh, shader, Zero)

RenderMeshWithBias(mesh, shader, depth_bias) ==
    Draw("render_mesh_with_bias", render_mesh_with_bias(Start, mesh, shader, depth_bias),
         mesh, shader, depth_bias)

RenderMeshOverlay(mesh, shader) ==
    Draw("render_mesh_overlay", render_mesh_overlay(Start, mesh, shader),
         mesh, shader, Zero)

\* Depth compositing: front-facing triangles under the three policies.
NextRaster ==
    \/ ClearFrame
    \/ \E mesh \in FrontMeshes, shader \in BodyShaders : RenderMesh(mesh, shader)
    \/ \E mesh \in FrontMeshes, shader \in ShipShaders, depth_bias \in Biases :
           RenderMeshWithBias(mesh, shader, depth_bias)
    \/ \E mesh \in FrontMeshes, shader \in ShipShaders : RenderMeshOverlay(mesh, shader)

SpecRaster == Init /\ [][NextRaster]_vars

----------------------------------------------------------------------------
(* Claims on depth compositing, checked under SpecRaster *)

\* C4: a render_mesh_overlay call leaves the depth buffer identical, entry for
\* entry, to its state before the call (so any sequence of overlay calls does);
\* only colour bytes may differ.
C4_OverlayKeepsDepth ==
    last.op = "render_mesh_overlay" => zbuffer = pre.zbuffer

\* An overlay call that blended over a pixel already holding geometry.
C4_Witness ==
    /\ last.op = "render_mesh_overlay"
    /\ buffer # pre.buffer
    /\ \E e \in last.cov :
           /\ is_finite(e.cur)
           /\ rgb_at(FB, e.index) # rgb_at(pre, e.index)

\* The biased depth of a covered fragment of the last biased draw.
Biased(e) == FAdd(e.depth, last.depth_bias)
\* The fragment was written: the stored depth of its pixel changed.
Written(e) == e.now # e.cur

\* C5 as stated: under the biased policy a covered fragment with interpolated
\* depth d at a pixel storing currentDepth is written iff d+b < currentDepth, and
\* when written the stored depth becomes exactly d+b.
C5_Original ==
    last.op = "render_mesh_with_bias" =>
        \A e \in last.cov :
            /\ Written(e) <=> FLt(Biased(e), e.cur)
            /\ Written(e) => e.now = Biased(e)

\* C5 as amended: the fragment is written iff d+b lies in [-1, 1] and
\* d+b < currentDepth; when written the stored depth is exactly d+b and the
\* colour is the shader's.
C5_BiasedWrite ==
    last.op = "render_mesh_with_bias" =>
        \A e \in last.cov :
            /\ Written(e) <=>
                   /\ FGe(Biased(e), MinusOne)
                   /\ FLe(Biased(e), One)
                   /\ FLt(Biased(e), e.cur)
            /\ Written(e) =>
                   /\ e.now = Biased(e)
                   /\ e.rgb = fragment(last.shader)

\* A biased draw over geometry: one fragment written over a stored finite depth,
\* and one fragment dropped because d+b is below -1.
C5_Witness ==
    /\ last.op = "render_mesh_with_bias"
    /\ \E e \in last.cov : is_finite(e.cur) /\ Written(e) /\ e.now = Biased(e)
    /\ \E e \in last.cov : FLt(Biased(e), MinusOne) /\ ~Written(e)

\* The fragments offered to pixel i are standard-policy fragments of at least
\* two triangles, no two at the same depth.
StandardOverlap(i) ==
    /\ Cardinality(offered[i]) >= 2
    /\ \A f \in offered[i] : f.kind = "mesh"
    /\ \A f, g \in offered[i] : f # g => f.depth # g.depth

\* C6: where front-facing triangles drawn with the standard policy in one epoch
\* overlap with different depths, the final colour and depth are those of the
\* nearer fragment, whichever was drawn first.
C6_NearerWinsAnyOrder ==
    \A i \in Pixels :
        StandardOverlap(i) =>
            \E f \in offered[i] :
                /\ \A g \in offered[i] : ~FLt(g.depth, f.depth)
                /\ zbuffer[i] = f.depth
                /\ rgb_at(FB, i) = f.color

\* The nearer triangle was drawn first: the last draw's fragment at an overlap
\* pixel is farther than the stored one, of another colour, and was dropped.
C6_Witness ==
    /\ last.op = "render_mesh"
    /\ \E e \in last.cov :
           /\ StandardOverlap(e.index)
           /\ FLt(e.cur, e.depth)
           /\ fragment(last.shader) # rgb_at(FB, e.index)

----------------------------------------------------------------------------
(* Rejected triangles: SpecCull draws meshes whose triangles the rasterizers
   are to reject, over and under front-facing geometry *)

\* One triangle each of RejectLists, a front-facing triangle behind them, and a
\* mesh of a clockwise triangle followed by its front-facing reverse.  Last, a
\* triangle with an index past the vertices followed by a sound one, and an
\* index list that does not end on a whole triple.
CullMeshes ==
    {Mesh(NearPool, l) : l \in RejectLists}
        \cup {Mesh(FarPool, <<0, 1, 2>>), Mesh(NearPool, <<0, 2, 1, 0, 1, 2>>)}
        \cup {Mesh(BeyondPool, <<0, 1, 2>>), Mesh(BeforePool, <<0, 1, 2>>)}
        \cup {Mesh(WidePool, l) : l \in {<<0, 1, 2>>, <<3, 4, 5>>, <<6, 7, 8>>}}
        \cup {Mesh(NearPool, l) : l \in {<<0, 1, 7, 0, 1, 2>>, <<0, 1, 2, 0>>}}

NextCull ==
    \/ ClearFrame
    \/ \E mesh \in CullMeshes : RenderMesh(mesh, "rock")
    \/ \E mesh \in CullMeshes : RenderMeshWithBias(mesh, "metal", Rat(-1, 20))
    \/ \E mesh \in CullMeshes : RenderMeshOverlay(mesh, "metal")

SpecCull == Init /\ [][NextCull]_vars

\* The last operation was one of the three render_mesh functions.
LastIsDraw == last.op \in {"render_mesh", "render_mesh_with_bias", "render_mesh_overlay"}

\* The triangles of a mesh whose three indices are within its vertices.
Tris(mesh) ==
    {t \in 0 .. (Len(mesh.indices) \div 3) - 1 :
        \A k \in 1 .. 3 : mesh.indices[3 * t + k] < Len(mesh.vertices)}

\* Vertex k (1..3) of triangle t of a mesh, before and after transform_vertex.
Corner(mesh, t, k) == mesh.vertices[mesh.indices[3 * t + k] + 1]
TCorner(mesh, t, k) == transform_vertex(Corner(mesh, t, k))

\* The screen-space cross product of triangle t, defined when its vertices are
\* finite.
FiniteTri(mesh, t) == \A k \in 1 .. 3 : is_valid_vertex(TCorner(mesh, t, k))
CrossOf(mesh, t) == cross(TCorner(mesh, t, 1), TCorner(mesh, t, 2), TCorner(mesh, t, 3))

\* Triangle t of the last draw left no trace: no pixel of it was tested as
\* covered and no shader call was made for it.
NoTrace(t) ==
    /\ \A e \in last.cov : e.tri # t
    /\ \A e \in last.shaded : e.tri # t

\* The last draw left both buffers as they were.
BuffersUnchanged == buffer = pre.buffer /\ zbuffer = pre.zbuffer

\* C7: in each of the three policies a triangle whose cross product is <= 0
\* makes no write to the colour buffer or the depth buffer and no shader call.
C7_BackFaceNoWrites ==
    LastIsDraw =>
        LET back == {t \in Tris(last.mesh) :
                        FiniteTri(last.mesh, t) /\ CrossOf(last.mesh, t) <= 0}
        IN  /\ \A t \in back : NoTrace(t)
            /\ back = Tris(last.mesh) => BuffersUnchanged

\* A clockwise triangle (cross < 0) was drawn nearer than geometry already in the
\* buffers, and they are unchanged.
C7_Witness ==
    /\ LastIsDraw
    /\ Tris(last.mesh) = {0}
    /\ FiniteTri(last.mesh, 0)
    /\ CrossOf(last.mesh, 0) < 0
    /\ \E i \in Pixels : is_finite(zbuffer[i])
    /\ BuffersUnchanged

\* The vertex has |w| < 1e-6: transform_vertex marks it degenerate.
DegenerateW(vertex) == FLt(FAbs(vertex.clip_pos[4]), EpsW)

\* C9 (first part): a vertex with |w| < 1e-6 gets the off-screen position and
\* depth 1.0.
C9_Sentinel ==
    LastIsDraw =>
        \A k \in 1 .. Len(last.mesh.vertices) :
            DegenerateW(last.mesh.vertices[k]) =>
                LET v == transform_vertex(last.mesh.vertices[k])
                IN  /\ v.screen_pos = <<ToFixed(Rat(OffScreen, 1)), ToFixed(Rat(OffScreen, 1))>>
                    /\ v.depth = One

\* C9 as stated: a triangle with a vertex of |w| < 1e-6 is rejected in all three
\* policies: a draw of such triangles only writes no pixel.
C9_DegenerateVertexRejected ==
    LastIsDraw =>
        LET marked == {t \in Tris(last.mesh) :
                          \E k \in 1 .. 3 : DegenerateW(Corner(last.mesh, t, k))}
        IN  /\ \A t \in marked : NoTrace(t)
            /\ (marked # {} /\ marked = Tris(last.mesh)) => BuffersUnchanged

\* Triangle t of the last draw has a vertex whose ndc depth is below -1 or
\* above 1.
VertexOutOfDepth(t) ==
    \E k \in 1 .. 3 : \/ FLt(TCorner(last.mesh, t, k).depth, MinusOne)
                      \/ FGt(TCorner(last.mesh, t, k).depth, One)

\* The covered fragment e was shaded, or its pixel was written.
ShadedOrWritten(e) ==
    \/ [tri |-> e.tri, index |-> e.index] \in last.shaded
    \/ e.now # e.cur
    \/ e.rgb # <<pre.buffer[4 * e.index], pre.buffer[4 * e.index + 1],
                 pre.buffer[4 * e.index + 2]>>

\* C12 as stated: in the standard, biased and overlay policies alike, a triangle
\* with a vertex ndc depth below -1 or above 1 is skipped entirely, and a covered
\* fragment whose interpolated depth is not finite or outside [-1, 1] is neither
\* shaded nor written.
C12_DepthChecksShared ==
    LastIsDraw =>
        /\ \A t \in Tris(last.mesh) :
               (FiniteTri(last.mesh, t) /\ VertexOutOfDepth(t)) => NoTrace(t)
        /\ \A e \in last.cov :
               (~is_finite(e.depth) \/ FLt(e.depth, MinusOne) \/ FGt(e.depth, One))
                   => ~ShadedOrWritten(e)

\* What the code gives: the standard and biased policies skip a triangle with a
\* vertex depth below -1 or above 1; the overlay policy skips it only for a
\* vertex depth above 1.
C12_DepthChecksPerPolicy ==
    LastIsDraw =>
        \A t \in Tris(last.mesh) :
            FiniteTri(last.mesh, t) =>
                /\ (last.op # "render_mesh_overlay" /\ VertexOutOfDepth(t)) => NoTrace(t)
                /\ (\E k \in 1 .. 3 : FGt(TCorner(last.mesh, t, k).depth, One))
                       => NoTrace(t)

\* The bounding box of triangle t of the last draw.
BoxOf(t) == bbox(TCorner(last.mesh, t, 1), TCorner(last.mesh, t, 2), TCorner(last.mesh, t, 3))

\* The bounding box has min >= max on an axis.
EmptyBox(bb) == bb.min_x >= bb.max_x \/ bb.min_y >= bb.max_y

\* C14: in every policy the covered pixels of a triangle lie inside its bounding
\* box; a triangle whose box has min >= max on an axis is skipped; the box of
\* every other triangle lies within [0, width-1] x [0, height-1] with min < max,
\* so the indices y*width + x of the fill stay within the arrays and max - min
\* does not underflow.
C14_BoundingBoxClamp ==
    LastIsDraw =>
        \A t \in Tris(last.mesh) :
            FiniteTri(last.mesh, t) =>
                /\ EmptyBox(BoxOf(t)) => NoTrace(t)
                /\ ~EmptyBox(BoxOf(t)) =>
                       /\ 0 <= BoxOf(t).min_x /\ BoxOf(t).max_x <= W - 1
                       /\ 0 <= BoxOf(t).min_y /\ BoxOf(t).max_y <= H - 1
                       /\ BoxOf(t).max_x - BoxOf(t).min_x > 0
                       /\ BoxOf(t).max_y - BoxOf(t).min_y > 0
                /\ \A e \in last.cov :
                       e.tri = t => e.index \in Pixels /\ in_box(BoxOf(t), e.index)

\* A triangle with vertices off the screen on both sides was filled, and the
\* last pixel of the framebuffer is among its covered pixels.
C14_Witness ==
    /\ LastIsDraw
    /\ Tris(last.mesh) = {0}
    /\ SX(TCorner(last.mesh, 0, 1)) < 0
    /\ SX(TCorner(last.mesh, 0, 2)) > W * SubPix
    /\ \E e \in last.cov : e.index = W * H - 1

\* C21 as stated: for any mesh each of render_mesh, render_mesh_with_bias and
\* render_mesh_overlay completes without an out-of-bounds access: a triangle
\* with an index >= the vertex count is skipped while the others are
\* rasterized, and trailing indices that do not form a whole triple are
\* ignored rather than causing a fault.
C21_NoOutOfBounds ==
    LastIsDraw =>
        /\ ~last.fault
        /\ \A e \in last.cov : e.tri \in Tris(last.mesh)
        /\ \A t \in Tris(last.mesh) :
               (FiniteTri(last.mesh, t) /\ CrossOf(last.mesh, t) > 0
                /\ last.mesh.vertices = NearPool)
                   => \E e \in last.cov : e.tri = t

\* What holds of the code: the same for every mesh whose index count is a
\* multiple of 3.
C21_WholeTriples ==
    (LastIsDraw /\ Len(last.mesh.indices) % 3 = 0) =>
        /\ ~last.fault
        /\ \A e \in last.cov : e.tri \in Tris(last.mesh)
        /\ \A t \in Tris(last.mesh) :
               (FiniteTri(last.mesh, t) /\ CrossOf(last.mesh, t) > 0
                /\ last.mesh.vertices = NearPool)
                   => \E e \in last.cov : e.tri = t

----------------------------------------------------------------------------
(* The overlay blend: SpecBlend *)

\* Depth -1 along the top edge of the screen, -1/2 along the bottom edge.
GrazingPool == Pool(-2, -2, -1, -1, -1)

\* A body passing close to the camera, and the ship's triangles behind it.
BlendBodies == {Mesh(GrazingPool, <<0, 1, 2>>), Mesh(FarPool, <<0, 1, 3>>)}
BlendShips == {Mesh(p, l) : p \in {NearPool, FarPool}, l \in FrontLists}

NextBlend ==
    \/ ClearFrame
    \/ \E mesh \in BlendBodies, shader \in {"rock", "dust"} : RenderMesh(mesh, shader)
    \/ \E mesh \in BlendShips, shader \in {"metal", "steel"} :
           RenderMeshOverlay(mesh, shader)

SpecBlend == Init /\ [][NextBlend]_vars

\* The last operation was the overlay draw of a single triangle.
LastIsOverlay == last.op = "render_mesh_overlay" /\ Tris(last.mesh) = {0}

\* The stored depth of pixel i before the last draw was below -0.9.
StoredNear(i) == FLt(pre.zbuffer[i], Rat(-9, 10))

\* The four colour bytes of pixel i are as before the last draw.
ColourKept(i) == \A k \in 0 .. 3 : buffer[4 * i + k] = pre.buffer[4 * i + k]

\* 95 * shaded + 5 * existing for channel k of pixel i in the last draw.
Blend100(i, k) == 95 * fragment(last.shader)[k + 1] + 5 * pre.buffer[4 * i + k]

\* C15 as stated: under the overlay policy a covered pixel whose stored depth is
\* below -0.9 keeps its colour; at every other covered pixel each RGB channel
\* becomes trunc(0.95 * shaded + 0.05 * existing) and alpha becomes 255,
\* whatever the fragment's own depth.
C15_Original ==
    LastIsOverlay =>
        \A e \in last.cov :
            IF StoredNear(e.index) THEN ColourKept(e.index)
            ELSE /\ \A k \in 0 .. 2 : buffer[4 * e.index + k] = Blend100(e.index, k) \div 100
                 /\ buffer[4 * e.index + 3] = 255

\* C15 amended: under the overlay policy a covered pixel whose stored depth is
\* below -0.9 keeps its colour; at every other covered pixel each RGB channel
\* becomes the f32 value shaded * 0.95 + existing * (1.0 - 0.95) truncated,
\* which is trunc(0.95 * shaded + 0.05 * existing) when 0.95 * shaded + 0.05 *
\* existing is not an integer and that integer or one less when it is; alpha
\* becomes 255; the fragment's own depth is not tested.
C15_OverlayBlend ==
    LastIsOverlay =>
        \A e \in last.cov :
            IF StoredNear(e.index) THEN ColourKept(e.index)
            ELSE /\ \A k \in 0 .. 2 :
                        IF Blend100(e.index, k) % 100 # 0
                        THEN buffer[4 * e.index + k] = Blend100(e.index, k) \div 100
                        ELSE buffer[4 * e.index + k] \in
                                 {Blend100(e.index, k) \div 100,
                                  Blend100(e.index, k) \div 100 - 1}
                 /\ buffer[4 * e.index + 3] = 255

\* An overlay draw behind a body: one covered pixel held a depth below -0.9 and
\* kept its colour, another held a nearer depth than the fragment's, not below
\* -0.9, and was blended to a different colour.
C15_Witness ==
    /\ LastIsOverlay
    /\ \E e \in last.cov : StoredNear(e.index) /\ ColourKept(e.index)
    /\ \E e \in last.cov :
           /\ ~StoredNear(e.index)
           /\ FLt(pre.zbuffer[e.index], e.depth)
           /\ ~ColourKept(e.index)

----------------------------------------------------------------------------
(* Renderer: lines (render_line, render_orbit, project_point, draw_line) *)

\* Option<Vec2>
None == [some |-> FALSE]
Some(p) == [some |-> TRUE, p |-> p]

\* project_point with `screen_x <= self.width` and `screen_y <= self.height`.
mut_project_screen_inclusive(screen_x, screen_y) ==
    IF /\ FGe(screen_x, Zero) /\ FLe(screen_x, Rat(W, 1))
       /\ FGe(screen_y, Zero) /\ FLe(screen_y, Rat(H, 1))
    THEN Some(<<screen_x, screen_y>>)
    ELSE None

\* project_point, from the screen position on: Some inside the screen.
project_screen(screen_x, screen_y) ==
    IF /\ FGe(screen_x, Zero) /\ FLt(screen_x, Rat(W, 1))
       /\ FGe(screen_y, Zero) /\ FLt(screen_y, Rat(H, 1))
    THEN Some(<<screen_x, screen_y>>)
    ELSE None

\* project_point, from ndc on: None when ndc.z is outside [-1, 1].
project_ndc(ndc) ==
    IF FLt(ndc[3], MinusOne) \/ FGt(ndc[3], One) THEN None
    ELSE project_screen(FMul(FMul(FAdd(ndc[1], One), Half), Rat(W, 1)),
                        FMul(FMul(FSub(One, ndc[2]), Half), Rat(H, 1)))

\* Renderer::project_point, on a point given by its clip position vp * pos4.
project_point(point) ==
    IF FLt(FAbs(point.clip_pos[4]), EpsW) \/ FLt(point.clip_pos[4], Zero) THEN None
    ELSE project_ndc([i \in 1 .. 3 |-> FDiv(point.clip_pos[i], point.clip_pos[4])])

\* `as i32` of an f32: truncation toward zero, 0 for NaN.  (The coordinates that
\* project_point lets through are within the screen, far from saturation.)
AsI32(f) ==
    IF ~is_finite(f) THEN 0
    ELSE IF f[1] >= 0 THEN f[1] \div f[2] ELSE -((-f[1]) \div f[2])

\* The loop of draw_line from (x0, y0) with error term err.
RECURSIVE line_loop(_, _, _, _, _, _, _, _, _, _, _)
line_loop(st, x0, y0, x1, y1, dx, dy, sx, sy, err, color) ==
    LET st1 == IF x0 >= 0 /\ x0 < W /\ y0 >= 0 /\ y0 < H
               THEN traced_set_pixel(st, x0, y0, color, Zero, "line")
               ELSE st
        e2 == 2 * err
        err1 == IF e2 >= dy THEN err + dy ELSE err
        err2 == IF e2 <= dx THEN err1 + dx ELSE err1
    IN  IF x0 = x1 /\ y0 = y1 THEN st1
        ELSE line_loop(st1,
                       IF e2 >= dy THEN x0 + sx ELSE x0,
                       IF e2 <= dx THEN y0 + sy ELSE y0,
                       x1, y1, dx, dy, sx, sy, err2, color)

\* draw_line on the truncated end points.
draw_line_i32(st, x0, y0, x1, y1, color) ==
    line_loop(st, x0, y0, x1, y1,
              Abs(x1 - x0), -Abs(y1 - y0),
              IF x0 < x1 THEN 1 ELSE -1, IF y0 < y1 THEN 1 ELSE -1,
              Abs(x1 - x0) - Abs(y1 - y0), color)

\* Renderer::draw_line
draw_line(st, p1, p2, color) ==
    draw_line_i32(st, AsI32(p1[1]), AsI32(p1[2]), AsI32(p2[1]), AsI32(p2[2]), color)

\* if let (Some(p1), Some(p2)) = ... { self.draw_line(framebuffer, p1, p2, color) }
draw_if_some(st, o1, o2, color) ==
    IF o1.some /\ o2.some THEN draw_line(st, o1.p, o2.p, color) ELSE st

\* Renderer::render_line
render_line(st, start, end, color) ==
    draw_if_some(st, project_point(start), project_point(end), color)

\* The loop of render_orbit stopping before the last point: the orbit is left
\* open.
RECURSIVE mut_orbit_loop_open(_, _, _, _)
mut_orbit_loop_open(st, screen_points, i, color) ==
    IF i >= Len(screen_points) - 1 THEN st
    ELSE mut_orbit_loop_open(draw_if_some(st, screen_points[i + 1],
                                          screen_points[i + 2], color),
                             screen_points, i + 1, color)

\* for i in 0..screen_points.len() { ... } of render_orbit, from index i on.
RECURSIVE orbit_loop(_, _, _, _)
orbit_loop(st, screen_points, i, color) ==
    IF i >= Len(screen_points) THEN st
    ELSE orbit_loop(draw_if_some(st, screen_points[i + 1],
                                 screen_points[((i + 1) % Len(screen_points)) + 1], color),
                    screen_points, i + 1, color)

\* Renderer::render_orbit, on the points parent_position + point.
render_orbit(st, orbit_points, color) ==
    IF Len(orbit_points) < 2 THEN st
    ELSE orbit_loop(st, [k \in 1 .. Len(orbit_points) |-> project_point(orbit_points[k])],
                    0, color)

----------------------------------------------------------------------------
(* Lines and planet geometry: SpecLine *)

\* Points at ndc depth 0: on the screen at (0, 0), (3W/4, 3H/4) and (3W/4, 0),
\* at the corner (W, H) just outside it, and behind the camera (w < 0).
PtA == Vtx(-2, 2, 0, 2)
PtB == Vtx(1, -1, 0, 2)
PtC == Vtx(1, 2, 0, 2)
PtOut == Vtx(2, -2, 0, 2)
PtBehind == Vtx(0, 0, 0, -2)
\* Points that would land on the screen centre but have w = 0, 0 < w < 1e-6,
\* ndc depth 3/2 and -3/2; a point at ndc depth exactly 1; a point left of the
\* screen (ndc.x = -3/2).
PtZeroW == Vtx(0, 0, 0, 0)
PtTinyW == [clip_pos |-> <<Zero, Zero, Zero, Rat(1, 2000000)>>,
            world_pos |-> <<Zero, Zero, Zero>>]
PtBeyondFar == Vtx(0, 0, 3, 2)
PtBeforeNear == Vtx(0, 0, -3, 2)
PtOnFar == Vtx(0, 0, 2, 2)
PtLeft == Vtx(-3, 0, 0, 2)

LineEnds == {<<PtA, PtB>>, <<PtB, PtA>>, <<PtA, PtC>>, <<PtC, PtB>>,
             <<PtA, PtOut>>, <<PtBehind, PtB>>,
             <<PtZeroW, PtB>>, <<PtTinyW, PtB>>, <<PtBeyondFar, PtB>>,
             <<PtA, PtBeforeNear>>, <<PtOnFar, PtA>>, <<PtLeft, PtC>>,
             <<VtxNaN, PtA>>}
Orbits == {<<PtA, PtC, PtB>>, <<PtA, PtBehind, PtB>>, <<PtC, PtB>>, <<PtA>>, <<>>}
\* orbit_color of main: planets and moons.
LineColors == {Color(100, 100, 150), Color(80, 80, 100)}

\* depth 0 everywhere: the depth draw_line gives its pixels.
MidPool == Pool(0, 0, 0, 0, 0)
LineMeshes == {Mesh(NearPool, <<0, 1, 2>>), Mesh(MidPool, <<0, 1, 2>>),
               Mesh(FarPool, <<0, 1, 3>>)}

\* A line call of a frame.
DrawLines(op, st, points, color) ==
    /\ ops < MaxOps
    /\ last.op # "new"
    /\ Finish(st)
    /\ ops' = ops + 1
    /\ last' = [op |-> op, points |-> points, color |-> color,
                screen_points |-> [k \in 1 .. Len(points) |-> project_point(points[k])]]

RenderLine(start, end, color) ==
    DrawLines("render_line", render_line(Start, start, end, color), <<start, end>>, color)

RenderOrbit(orbit_points, color) ==
    DrawLines("render_orbit", render_orbit(Start, orbit_points, color), orbit_points, color)

NextLine ==
    \/ ClearFrame
    \/ \E mesh \in LineMeshes, shader \in BodyShaders : RenderMesh(mesh, shader)
    \/ \E ends \in LineEnds, color \in LineColors : RenderLine(ends[1], ends[2], color)
    \/ \E orbit_points \in Orbits, color \in LineColors : RenderOrbit(orbit_points, color)

SpecLine == Init /\ [][NextLine]_vars

\* C10 as stated: a pixel traversed by draw_line and covered by planet geometry
\* drawn with the standard policy in the same epoch holds a line's colour,
\* whichever was drawn first and whatever the geometry's depth in [-1, 1].
C10_LineAlwaysWins ==
    \A i \in Pixels :
        (/\ \E f \in offered[i] : f.kind = "line"
         /\ \E g \in offered[i] : g.kind = "mesh")
        => \E f \in offered[i] : f.kind = "line" /\ rgb_at(FB, i) = f.color

\* What the code gives: such a pixel holds the line's colour when every mesh
\* fragment offered to it lies behind depth 0, and the geometry's colour when a
\* mesh fragment lies in front of depth 0.
C10_LineWinsBehindZero ==
    \A i \in Pixels :
        (/\ \E f \in offered[i] : f.kind = "line"
         /\ \E g \in offered[i] : g.kind = "mesh")
        => /\ (\A g \in offered[i] : g.kind = "mesh" => FGt(g.depth, Zero))
                  => \E f \in offered[i] : f.kind = "line" /\ rgb_at(FB, i) = f.color
           /\ (\E g \in offered[i] : g.kind = "mesh" /\ FLt(g.depth, Zero))
                  => \E g \in offered[i] : g.kind = "mesh" /\ rgb_at(FB, i) = g.color

\* The line calls, and the clip position of the k-th point of the last one.
LastIsLines == last.op \in {"render_line", "render_orbit"}
ClipOf(k) == last.points[k].clip_pos

\* The clip position c has w <= 0 or |w| < 1e-6, or its ndc depth z/w is
\* outside [-1, 1].
BehindOrOutOfDepth(c) ==
    \/ FLe(c[4], Zero)
    \/ FLt(FAbs(c[4]), EpsW)
    \/ FLt(FDiv(c[3], c[4]), MinusOne)
    \/ FGt(FDiv(c[3], c[4]), One)

\* The clip position c (w > 0) lies within the screen: -w <= x < w, -w < y <= w.
WithinScreen(c) ==
    /\ FLe(FNeg(c[4]), c[1]) /\ FLt(c[1], c[4])
    /\ FLt(FNeg(c[4]), c[2]) /\ FLe(c[2], c[4])

\* The screen position of the clip position c.
ScreenOf(c) ==
    <<FMul(FAdd(FDiv(c[1], c[4]), One), Rat(W, 2)),
      FMul(FSub(One, FDiv(c[2], c[4])), Rat(H, 2))>>

\* C11 as stated: project_point returns no value for a point with w <= 0 (or
\* |w| < 1e-6) or ndc depth outside [-1, 1], and for every other point it
\* returns a screen coordinate with 0 <= x < width and 0 <= y < height.
C11_Original ==
    LastIsLines =>
        \A k \in 1 .. Len(last.points) :
            IF BehindOrOutOfDepth(ClipOf(k))
            THEN ~last.screen_points[k].some
            ELSE /\ last.screen_points[k].some
                 /\ FGe(last.screen_points[k].p[1], Zero)
                 /\ FLt(last.screen_points[k].p[1], Rat(W, 1))
                 /\ FGe(last.screen_points[k].p[2], Zero)
                 /\ FLt(last.screen_points[k].p[2], Rat(H, 1))

\* C11 amended: project_point returns no value for a point with w <= 0 (or
\* |w| < 1e-6), with ndc depth outside [-1, 1], or whose screen position is not
\* within [0, width) x [0, height) (NaN included); for every other point it
\* returns that screen position, with 0 <= x < width and 0 <= y < height.
C11_ProjectPoint ==
    LastIsLines =>
        \A k \in 1 .. Len(last.points) :
            /\ last.screen_points[k].some <=>
                   /\ ~BehindOrOutOfDepth(ClipOf(k))
                   /\ is_finite(ClipOf(k)[4])
                   /\ WithinScreen(ClipOf(k))
            /\ last.screen_points[k].some =>
                   /\ last.screen_points[k].p = ScreenOf(ClipOf(k))
                   /\ FGe(last.screen_points[k].p[1], Zero)
                   /\ FLt(last.screen_points[k].p[1], Rat(W, 1))
                   /\ FGe(last.screen_points[k].p[2], Zero)
                   /\ FLt(last.screen_points[k].p[2], Rat(H, 1))

\* A line call with one end projected and the other, in front of the camera
\* and within the depth range, not projected.
C11_Witness ==
    /\ LastIsLines
    /\ \E k \in 1 .. Len(last.points) : last.screen_points[k].some
    /\ \E k \in 1 .. Len(last.points) :
           ~last.screen_points[k].some /\ ~BehindOrOutOfDepth(ClipOf(k))

\* The pixels draw_line sets for the segment from p1 to p2.
SegmentPixels(p1, p2) ==
    LET drawn == draw_line([Start EXCEPT !.offered = NoOffers], p1, p2, Color(0, 0, 0))
    IN  {i \in Pixels : drawn.offered[i] # {}}

\* The segments the last line call has to draw, as pairs of indices into its
\* points: for render_line the pair of its ends, for render_orbit over n >= 2
\* points the pairs (i, (i+1) mod n); each only when both ends are projected.
SegmentsDue ==
    {s \in IF last.op = "render_line" THEN {<<1, 2>>}
           ELSE IF Len(last.points) < 2 THEN {}
           ELSE {<<i + 1, ((i + 1) % Len(last.points)) + 1>> :
                    i \in 0 .. Len(last.points) - 1} :
        last.screen_points[s[1]].some /\ last.screen_points[s[2]].some}

PixelsDue ==
    UNION {SegmentPixels(last.screen_points[s[1]].p, last.screen_points[s[2]].p) :
              s \in SegmentsDue}

\* C16: a render_orbit or render_line call on a cleared framebuffer sets exactly
\* the pixels of the segments from projected point i to projected point
\* (i+1) mod n whose two ends are projected (render_line: of its one segment
\* when both ends are projected), to the line's colour at depth 0; every other
\* pixel, and every pixel when the orbit has fewer than 2 points, is unchanged.
C16_OrbitSegments ==
    (LastIsLines /\ ops = 1) =>
        \A i \in Pixels :
            IF i \in PixelsDue
            THEN zbuffer[i] = Zero /\ rgb_at(FB, i) = last.color
            ELSE zbuffer[i] = pre.zbuffer[i] /\ rgb_at(FB, i) = rgb_at(pre, i)

\* A render_orbit call over three projected points has drawn the segment from the
\* last point back to the first: pixel (1, 1) lies on that segment only.
C16_Witness ==
    /\ last.op = "render_orbit" /\ ops = 1
    /\ Len(last.points) = 3
    /\ \A k \in 1 .. 3 : last.screen_points[k].some
    /\ W + 1 \in SegmentPixels(last.screen_points[3].p, last.screen_points[1].p)
    /\ W + 1 \notin SegmentPixels(last.screen_points[1].p, last.screen_points[2].p)
    /\ W + 1 \notin SegmentPixels(last.screen_points[2].p, last.screen_points[3].p)
    /\ zbuffer[W + 1] = Zero

----------------------------------------------------------------------------
(* rasterize_triangle and barycentric with the rounding of f32 arithmetic kept.
   Every operation rounds its exact result to the nearest value with
   MANTISSA_DIGITS bits of significand, ties to even (no exponent limits). *)

\* <<m, d, e>> with n/d = (m/d) * 2^e and 2^(MANTISSA_DIGITS-1) <= m/d < 2^MANTISSA_DIGITS
RECURSIVE Scale(_, _, _)
Scale(n, d, e) ==
    IF n \div Pow2(MANTISSA_DIGITS) >= d
    THEN IF n % 2 = 0 THEN Scale(n \div 2, d, e + 1) ELSE Scale(n, 2 * d, e + 1)
    ELSE IF n \div Pow2(MANTISSA_DIGITS - 1) < d
    THEN IF d % 2 = 0 THEN Scale(n, d \div 2, e - 1) ELSE Scale(2 * n, d, e - 1)
    ELSE <<n, d, e>>

\* n/d (both positive) to the nearest integer, ties to even.
RoundHalfEven(n, d) ==
    IF 2 * (n % d) > d \/ (2 * (n % d) = d /\ (n \div d) % 2 = 1)
    THEN (n \div d) + 1
    ELSE n \div d

\* m / 2^k in lowest terms.
RECURSIVE Halved(_, _)
Halved(m, k) ==
    IF k > 0 /\ m % 2 = 0 THEN Halved(m \div 2, k - 1) ELSE Rat(m, Pow2(k))

\* The value of sign s with the scaled magnitude t = <<m, d, e>>, rounded.
Quantize(s, t) ==
    IF t[3] >= 0
    THEN Rat(s * RoundHalfEven(t[1], t[2]) * Pow2(t[3]), 1)
    ELSE Halved(s * RoundHalfEven(t[1], t[2]), -t[3])

\* The f32 nearest to an exact result.
Round(f) ==
    IF ~is_finite(f) \/ f[1] = 0 THEN f
    ELSE Quantize(Sign(f[1]), Scale(Abs(f[1]), f[2], 0))

\* The f32 operators +, -, * and /.
RAdd(a, b) == Round(FAdd(a, b))
RSub(a, b) == Round(FSub(a, b))
RMul(a, b) == Round(FMul(a, b))
RDiv(a, b) == Round(FDiv(a, b))

\* `cross` of rasterize_triangle on the screen positions a, b, c.
cross_f32(a, b, c) ==
    RSub(RMul(RSub(b[1], a[1]), RSub(c[2], a[2])),
         RMul(RSub(b[2], a[2]), RSub(c[1], a[1])))

\* f32::min and f32::max of finite values; f32::floor and f32::ceil as integers.
FMin(a, b) == IF FLt(b, a) THEN b ELSE a
FMax(a, b) == IF FLt(a, b) THEN b ELSE a
FFloor(f) == f[1] \div f[2]
FCeil(f) == -((-f[1]) \div f[2])

\* min_x, max_x, min_y, max_y of rasterize_triangle.
bbox_f32(a, b, c) ==
    [min_x |-> AsUsize(Max2(FFloor(FMin(FMin(a[1], b[1]), c[1])), 0)),
     max_x |-> AsUsize(Min2(FCeil(FMax(FMax(a[1], b[1]), c[1])), W - 1)),
     min_y |-> AsUsize(Max2(FFloor(FMin(FMin(a[2], b[2]), c[2])), 0)),
     max_y |-> AsUsize(Min2(FCeil(FMax(FMax(a[2], b[2]), c[2])), H - 1))]

\* The returns of rasterize_triangle that precede the fill loop.
skips_triangle_f32(v0, v1, v2) ==
    \/ ~is_valid_vertex(v0) \/ ~is_valid_vertex(v1) \/ ~is_valid_vertex(v2)
    \/ FLe(cross_f32(v0.screen_pos, v1.screen_pos, v2.screen_pos), Zero)
    \/ depth_out_of_range(v0) \/ depth_out_of_range(v1) \/ depth_out_of_range(v2)
    \/ bbox_f32(v0.screen_pos, v1.screen_pos, v2.screen_pos).min_x
           >= bbox_f32(v0.screen_pos, v1.screen_pos, v2.screen_pos).max_x
    \/ bbox_f32(v0.screen_pos, v1.screen_pos, v2.screen_pos).min_y
           >= bbox_f32(v0.screen_pos, v1.screen_pos, v2.screen_pos).max_y
    \/ bbox_f32(v0.screen_pos, v1.screen_pos, v2.screen_pos).max_x
           - bbox_f32(v0.screen_pos, v1.screen_pos, v2.screen_pos).min_x > W * 2
    \/ bbox_f32(v0.screen_pos, v1.screen_pos, v2.screen_pos).max_y
           - bbox_f32(v0.screen_pos, v1.screen_pos, v2.screen_pos).min_y > H * 2

\* Vector2::dot
dot_f32(ax, ay, bx, by) == RAdd(RMul(ax, bx), RMul(ay, by))

\* barycentric: u, v, w from v and w.
bary_uvw(v, w) == <<RSub(RSub(One, v), w), v, w>>

\* barycentric: the test of denom against 1e-8, then v and w.
bary_denom(denom, d00, d01, d11, d20, d21) ==
    IF is_finite(denom) /\ Abs(denom[1]) <= (denom[2] - 1) \div DenomEpsInv
    THEN <<Zero, Zero, Zero>>
    ELSE bary_uvw(RDiv(RSub(RMul(d11, d20), RMul(d01, d21)), denom),
                  RDiv(RSub(RMul(d00, d21), RMul(d01, d20)), denom))

\* barycentric: denom from the five dot products.
bary_dots(d00, d01, d11, d20, d21) ==
    bary_denom(RSub(RMul(d00, d11), RMul(d01, d01)), d00, d01, d11, d20, d21)

\* barycentric: the dot products of v0 = b - a, v1 = c - a, v2 = p - a.
bary_edges(v0x, v0y, v1x, v1y, v2x, v2y) ==
    bary_dots(dot_f32(v0x, v0y, v0x, v0y), dot_f32(v0x, v0y, v1x, v1y),
              dot_f32(v1x, v1y, v1x, v1y), dot_f32(v2x, v2y, v0x, v0y),
              dot_f32(v2x, v2y, v1x, v1y))

\* barycentric(p, a, b, c) for the centre p of pixel (x, y): (u, v, w).
barycentric_f32(x, y, a, b, c) ==
    bary_edges(RSub(b[1], a[1]), RSub(b[2], a[2]), RSub(c[1], a[1]), RSub(c[2], a[2]),
               RSub(RAdd(Rat(x, 1), Half), a[1]), RSub(RAdd(Rat(y, 1), Half), a[2]))

\* w0 * a0 + w1 * a1 + w2 * a2
interpolate_f32(bc, a0, a1, a2) ==
    RAdd(RAdd(RMul(bc[1], a0), RMul(bc[2], a1)), RMul(bc[3], a2))

\* rasterize_triangle, the coverage test on the weights bc of pixel (x, y).
standard_covered_f32(st, v0, v1, v2, shader, tri, x, y, bc) ==
    IF ~covered(bc) THEN st
    ELSE standard_shade(st, shader, tri, x, y,
                        interpolate_f32(bc, v0.depth, v1.depth, v2.depth),
                        [i \in 1 .. 3 |-> interpolate_f32(bc, v0.world_pos[i],
                                                          v1.world_pos[i], v2.world_pos[i])])

\* Renderer::rasterize_triangle
rasterize_triangle_f32(st, v0, v1, v2, shader, tri) ==
    IF skips_triangle_f32(v0, v1, v2) THEN st
    ELSE fill(st, [k \in 1 .. W * H |->
                      IF in_box(bbox_f32(v0.screen_pos, v1.screen_pos, v2.screen_pos), k - 1)
                      THEN standard_covered_f32(
                               st, v0, v1, v2, shader, tri, (k - 1) % W, (k - 1) \div W,
                               barycentric_f32((k - 1) % W, (k - 1) \div W,
                                               v0.screen_pos, v1.screen_pos, v2.screen_pos))
                      ELSE st] \o <<>>)

----------------------------------------------------------------------------
(* Zero-area triangles under f32 arithmetic: SpecF32 *)

\* A TransformedVertex at screen position (x, y) and the given depth.
AtDepth(x, y, depth) ==
    [screen_pos |-> <<x, y>>, depth |-> depth, world_pos |-> <<Half, Half, Half>>]
At(x, y) == AtDepth(x, y, Half)

\* A coordinate a little over half a unit in the last place of the values just
\* below 1: 1 - Tiny rounds away from 1, 3 - 3 * Tiny rounds to 3.
Tiny == Rat(5, Pow2(MANTISSA_DIGITS + 3))
Tiny3 == Rat(15, Pow2(MANTISSA_DIGITS + 3))

\* Screen-space triangles.  The first four have their vertices on the line
\* y = 3x; then coincident vertices, a triangle of area 2^-15 in both windings,
\* and front-facing triangles.
ScreenTriangles ==
    {<<At(Tiny, Tiny3), At(Rat(2, 1), Rat(6, 1)), At(Rat(1, 1), Rat(3, 1))>>,
     <<At(Tiny, Tiny3), At(Rat(1, 1), Rat(3, 1)), At(Rat(2, 1), Rat(6, 1))>>,
     <<At(Zero, Zero), At(Rat(2, 1), Rat(6, 1)), At(Rat(1, 1), Rat(3, 1))>>,
     <<At(Rat(1, 2), Rat(3, 2)), At(Rat(2, 1), Rat(6, 1)), At(Rat(1, 1), Rat(3, 1))>>,
     <<At(One, One), At(One, One), At(Rat(3, 1), Rat(2, 1))>>,
     <<At(One, One), At(One, One), At(One, One)>>,
     <<At(Zero, Zero), At(Zero, Rat(1, 128)), At(Rat(1, 128), Zero)>>,
     <<At(Zero, Zero), At(Rat(1, 128), Zero), At(Zero, Rat(1, 128))>>,
     <<At(Zero, Zero), At(Rat(W, 1), Zero), At(Zero, Rat(H, 1))>>,
     <<At(Zero, Zero), At(Rat(W, 1), Zero), At(Rat(W, 1), Rat(H, 1))>>,
     <<AtDepth(Zero, Zero, MinusOne), AtDepth(Rat(W, 1), Zero, Zero),
       AtDepth(Zero, Rat(H, 1), Zero)>>}

\* One call of rasterize_triangle in a frame.
RasterizeTriangle(v, shader) ==
    /\ ops < MaxOps
    /\ last.op # "new"
    /\ Finish(rasterize_triangle_f32(Start, v[1], v[2], v[3], shader, 0))
    /\ ops' = ops + 1
    /\ last' = [op |-> "rasterize_triangle", v |-> v, shader |-> shader,
                cov |-> rasterize_triangle_f32(Start, v[1], v[2], v[3], shader, 0).cov]

NextF32 ==
    \/ ClearFrame
    \/ \E v \in ScreenTriangles, shader \in BodyShaders : RasterizeTriangle(v, shader)

SpecF32 == Init /\ [][NextF32]_vars

\* Twice the signed area of a screen-space triangle, in exact arithmetic.
ExactCross(v) ==
    FSub(FMul(FSub(v[2].screen_pos[1], v[1].screen_pos[1]),
              FSub(v[3].screen_pos[2], v[1].screen_pos[2])),
         FMul(FSub(v[2].screen_pos[2], v[1].screen_pos[2]),
              FSub(v[3].screen_pos[1], v[1].screen_pos[1])))

\* C8 as stated: a triangle with coincident or collinear vertices (zero
\* screen-space area) writes no pixel.
C8_ZeroAreaNoWrites ==
    (last.op = "rasterize_triangle" /\ ExactCross(last.v) = Zero) => BuffersUnchanged

\* What holds of the code: a triangle with two coincident vertices writes no
\* pixel, and neither does one whose cross product as computed is <= 0.
C8_CoincidentNoWrites ==
    (/\ last.op = "rasterize_triangle"
     /\ \/ last.v[1].screen_pos = last.v[2].screen_pos
        \/ last.v[1].screen_pos = last.v[3].screen_pos
        \/ last.v[2].screen_pos = last.v[3].screen_pos
        \/ FLe(cross_f32(last.v[1].screen_pos, last.v[2].screen_pos,
                         last.v[3].screen_pos), Zero))
    => BuffersUnchanged

\* denom of barycentric for the screen positions a, b, c, as f32 computes it.
DenomOf(a, b, c) ==
    RSub(RMul(dot_f32(RSub(b[1], a[1]), RSub(b[2], a[2]), RSub(b[1], a[1]), RSub(b[2], a[2])),
              dot_f32(RSub(c[1], a[1]), RSub(c[2], a[2]), RSub(c[1], a[1]), RSub(c[2], a[2]))),
         RMul(dot_f32(RSub(b[1], a[1]), RSub(b[2], a[2]), RSub(c[1], a[1]), RSub(c[2], a[2])),
              dot_f32(RSub(b[1], a[1]), RSub(b[2], a[2]), RSub(c[1], a[1]), RSub(c[2], a[2]))))

\* |denom| < 1e-8
NearZero(denom) == is_finite(denom) /\ Abs(denom[1]) <= (denom[2] - 1) \div DenomEpsInv

\* C13 as stated: when the barycentric denominator is near zero (|denom| < 1e-8)
\* the point is treated as outside the triangle, so a triangle that passes the
\* cull test with a near-zero denominator has no covered pixel and writes no
\* pixel of its bounding box.
C13_NearZeroDenomOutside ==
    (/\ last.op = "rasterize_triangle"
     /\ FGt(cross_f32(last.v[1].screen_pos, last.v[2].screen_pos, last.v[3].screen_pos),
            Zero)
     /\ NearZero(DenomOf(last.v[1].screen_pos, last.v[2].screen_pos, last.v[3].screen_pos)))
    => (last.cov = {} /\ BuffersUnchanged)

\* What the code gives when the denominator is not near zero and the arithmetic
\* is exact (SpecRaster): a pixel of the bounding box is covered iff its centre
\* is on the inner side of the three edges of the triangle.
PixelCentre(i) == [screen_pos |-> <<<<(i % W) * SubPix + SubPix \div 2, SubPix>>,
                                    <<(i \div W) * SubPix + SubPix \div 2, SubPix>>>>]
C13_CoveredIffInside ==
    (LastIsDraw /\ Tris(last.mesh) = {0} /\ last.cov # {}) =>
        \A i \in Pixels :
            (\E e \in last.cov : e.index = i) <=>
                /\ in_box(bbox(TCorner(last.mesh, 0, 1), TCorner(last.mesh, 0, 2),
                               TCorner(last.mesh, 0, 3)), i)
                /\ cross(TCorner(last.mesh, 0, 1), TCorner(last.mesh, 0, 2), PixelCentre(i)) >= 0
                /\ cross(TCorner(last.mesh, 0, 2), TCorner(last.mesh, 0, 3), PixelCentre(i)) >= 0
                /\ cross(TCorner(last.mesh, 0, 3), TCorner(last.mesh, 0, 1), PixelCentre(i)) >= 0

----------------------------------------------------------------------------
(* Renderer::is_in_frustum: SpecFrustum *)

\* The near and far planes of main's projection_matrix.
near == 50
far == 500000

\* clip_pos = projection_matrix * view_pos for a point (0, 0, view_z) on the
\* camera axis: perspective gives z = (far + near) / (near - far) * view_z
\* + 2 * far * near / (near - far) and w = -view_z.
perspective_on_axis(view_z) ==
    <<Zero, Zero,
      FAdd(FMul(Rat(far + near, near - far), view_z), Rat(2 * far * near, near - far)),
      FNeg(view_z)>>

\* is_in_frustum: (screen_size * 2.0).max(1.0).min(20.0)
frustum_margin(screen_size) == FMin(FMax(FMul(screen_size, Rat(2, 1)), One), Rat(20, 1))

\* is_in_frustum: x_test && y_test && z_test, for w > 0.
frustum_tests(clip_pos, w, margin) ==
    /\ FLt(FAbs(clip_pos[1]), FMul(FAbs(w), FAdd(One, margin)))
    /\ FLt(FAbs(clip_pos[2]), FMul(FAbs(w), FAdd(One, margin)))
    /\ FGt(clip_pos[3], FMul(FNeg(FAbs(w)), FAdd(One, margin)))
    /\ FLt(clip_pos[3], FAbs(w))

\* Renderer::is_in_frustum, on view_pos = view_matrix * pos4 and
\* clip_pos = vp * pos4.
is_in_frustum(view_pos, clip_pos, object_radius) ==
    IF FGt(view_pos[3], FMul(object_radius, Rat(2, 1))) THEN FALSE
    ELSE IF FLe(clip_pos[4], Zero) THEN FALSE
    ELSE frustum_tests(clip_pos, clip_pos[4],
                       frustum_margin(FDiv(object_radius, FAbs(clip_pos[4]))))

\* Bodies centred on the camera axis at view-space z (negative: in front of the
\* camera), of the given radius.
Spheres ==
    {[view_z |-> z, radius |-> r] :
        z \in {-5000, -1000, -200, -100, -60, -40, -10, 10, 40, 100, 1000},
        r \in {1, 20, 100, 300, 2000, 10000}}

\* The visibility query main makes for a body before it draws it.
IsInFrustum(sphere) ==
    /\ ops < MaxOps
    /\ last.op # "new"
    /\ ops' = ops + 1
    /\ last' = [op |-> "is_in_frustum", sphere |-> sphere,
                result |-> is_in_frustum(<<Zero, Zero, Rat(sphere.view_z, 1)>>,
                                         perspective_on_axis(Rat(sphere.view_z, 1)),
                                         Rat(sphere.radius, 1))]
    /\ UNCHANGED <<buffer, zbuffer, pre, offered, main>>

NextFrustum ==
    \/ ClearFrame
    \/ \E sphere \in Spheres : IsInFrustum(sphere)

SpecFrustum == Init /\ [][NextFrustum]_vars

\* The sphere has a point inside the view frustum: a point (0, 0, -d) of the
\* camera axis with near <= d <= far lies within the radius of its centre.
ReachesFrustum(sphere) ==
    /\ -sphere.view_z + sphere.radius >= near
    /\ -sphere.view_z - sphere.radius <= far

\* C17 as stated: is_in_frustum returns true for every sphere that has a point
\* inside the view frustum, a sphere centred behind the camera whose surface
\* reaches in front of the near plane included.
C17_NoFalseNegatives ==
    (last.op = "is_in_frustum" /\ ReachesFrustum(last.sphere)) => last.result

\* What the code gives: of the spheres that reach the frustum along the camera
\* axis, those centred in front of the camera (w > 0) are accepted and those
\* centred on or behind the camera plane (w <= 0) are rejected.
C17_AcceptedIffInFront ==
    (last.op = "is_in_frustum" /\ ReachesFrustum(last.sphere))
        => (last.result <=> last.sphere.view_z < 0)

----------------------------------------------------------------------------
(* Procedural meshes (src/src/mesh.rs): SpecMesh *)

\* Largest rings, sectors and segments the generators are run with.
MaxRings == 8
MaxSectors == 8
MaxSegments == 8

\* A vertex of a generated mesh.  Position and normal are sines and cosines of
\* the two angles; the vertex keeps what they are computed from: the radius
\* and the two angles as fractions of a half turn (theta) and of a turn (phi).
Vertex(radius, theta, phi) == [radius |-> radius, theta |-> theta, phi |-> phi]

\* create_sphere whose ring loop runs `0..sectors`: no seam vertex per ring.
mut_sphere_vertices_open_seam(radius, rings, sectors) ==
    <<Vertex(radius, Zero, Zero)>>
    \o [k \in 1 .. (rings - 1) * sectors |->
            Vertex(radius, Rat(1 + (k - 1) \div sectors, rings),
                   Rat((k - 1) % sectors, sectors))]
    \o <<Vertex(radius, One, Zero)>>

\* create_sphere: the north pole, `for r in 1..rings { for s in 0..=sectors }`,
\* the south pole.
sphere_vertices(radius, rings, sectors) ==
    <<Vertex(radius, Zero, Zero)>>
    \o [k \in 1 .. (rings - 1) * (sectors + 1) |->
            Vertex(radius, Rat(1 + (k - 1) \div (sectors + 1), rings),
                   Rat((k - 1) % (sectors + 1), sectors))]
    \o <<Vertex(radius, One, Zero)>>

\* create_sphere: `for s in 0..sectors`, the triangles around the north pole.
north_cap(sectors) ==
    [k \in 1 .. 3 * sectors |->
        <<0, 1 + (k - 1) \div 3, 1 + (k - 1) \div 3 + 1>>[((k - 1) % 3) + 1]]

\* The six indices pushed for one quad between two rings.
quad(current, next) == <<current, next, current + 1, current + 1, next, next + 1>>

\* `current` for the q-th quad of the bands: r = q / sectors, s = q % sectors.
band_current(q, sectors) == 1 + (q \div sectors) * (sectors + 1) + (q % sectors)

\* create_sphere: `for r in 0..(rings - 2) { for s in 0..sectors }`.
middle_bands(rings, sectors) ==
    [k \in 1 .. 6 * (rings - 2) * sectors |->
        quad(band_current((k - 1) \div 6, sectors),
             band_current((k - 1) \div 6, sectors) + sectors + 1)[((k - 1) % 6) + 1]]

\* create_sphere: the triangles around the south pole.
south_cap(south_pole_index, last_ring_start, sectors) ==
    [k \in 1 .. 3 * sectors |->
        <<last_ring_start + (k - 1) \div 3, south_pole_index,
          last_ring_start + (k - 1) \div 3 + 1>>[((k - 1) % 3) + 1]]

sphere_indices(vertices, rings, sectors) ==
    north_cap(sectors) \o middle_bands(rings, sectors)
    \o south_cap(Len(vertices) - 1, Len(vertices) - 1 - (sectors + 1), sectors)

\* ObjMesh::create_sphere(radius, rings, sectors)
create_sphere(radius, rings, sectors) ==
    [vertices |-> sphere_vertices(radius, rings, sectors),
     indices |-> sphere_indices(sphere_vertices(radius, rings, sectors), rings, sectors)]

\* create_ring: `for ring in 0..=1 { for s in 0..=segments }`.
ring_vertices(inner_radius, outer_radius, segments) ==
    [k \in 1 .. 2 * (segments + 1) |->
        Vertex(IF (k - 1) \div (segments + 1) = 0 THEN inner_radius ELSE outer_radius,
               Half, Rat((k - 1) % (segments + 1), segments))]

\* create_ring: `for s in 0..segments`, two triangles i0 i2 i1 and i1 i2 i3.
ring_indices(segments) ==
    [k \in 1 .. 6 * segments |->
        <<(k - 1) \div 6, (k - 1) \div 6 + segments + 1, (k - 1) \div 6 + 1,
          (k - 1) \div 6 + 1, (k - 1) \div 6 + segments + 1,
          (k - 1) \div 6 + segments + 2>>[((k - 1) % 6) + 1]]

\* ObjMesh::create_ring(inner_radius, outer_radius, segments)
create_ring(inner_radius, outer_radius, segments) ==
    [vertices |-> ring_vertices(inner_radius, outer_radius, segments),
     indices |-> ring_indices(segments)]

\* Radii of the spheres, and inner and outer radii of the rings.
SphereRadii == {Rat(1, 1), Rat(2, 1)}
RingRadii == {<<Rat(13, 10), Rat(2, 1)>>, <<Rat(1, 1), Rat(3, 1)>>}

CreateSphere(radius, rings, sectors) ==
    /\ last' = [op |-> "create_sphere", radius |-> radius, rings |-> rings,
                sectors |-> sectors, mesh |-> create_sphere(radius, rings, sectors)]
    /\ UNCHANGED <<buffer, zbuffer, ops, pre, offered, main>>

CreateRing(inner_radius, outer_radius, segments) ==
    /\ last' = [op |-> "create_ring", inner_radius |-> inner_radius,
                outer_radius |-> outer_radius, segments |-> segments,
                mesh |-> create_ring(inner_radius, outer_radius, segments)]
    /\ UNCHANGED <<buffer, zbuffer, ops, pre, offered, main>>

NextMesh ==
    \/ \E radius \in SphereRadii, rings \in 2 .. MaxRings, sectors \in 1 .. MaxSectors :
           CreateSphere(radius, rings, sectors)
    \/ \E radii \in RingRadii, segments \in 1 .. MaxSegments :
           CreateRing(radii[1], radii[2], segments)

SpecMesh == Init /\ [][NextMesh]_vars

LastIsMesh == last.op \in {"create_sphere", "create_ring"}

\* C20: every mesh produced by create_sphere(radius, rings, sectors) with
\* rings >= 2 and sectors >= 1, and by create_ring(inner, outer, segments) with
\* segments >= 1, has an index count that is a multiple of 3 and every index
\* strictly less than the vertex count (and none below 0: no u32 subtraction
\* of the generators goes below zero).
C20_MeshInvariant ==
    LastIsMesh =>
        /\ Len(last.mesh.indices) % 3 = 0
        /\ \A k \in 1 .. Len(last.mesh.indices) :
               /\ last.mesh.indices[k] < Len(last.mesh.vertices)
               /\ last.mesh.indices[k] >= 0

\* A sphere with a band of quads between its caps, whose triangles reach the
\* last vertex (the south pole) and the first (the north pole).
C20_Witness ==
    /\ last.op = "create_sphere"
    /\ last.rings >= 3 /\ last.sectors >= 2
    /\ Len(last.mesh.indices) = 6 * last.sectors * (last.rings - 1)
    /\ \E k \in 1 .. Len(last.mesh.indices) :
           last.mesh.indices[k] = Len(last.mesh.vertices) - 1
    /\ \E k \in 1 .. Len(last.mesh.indices) : last.mesh.indices[k] = 0

----------------------------------------------------------------------------
(* One frame of main (src/src/main.rs): the draws of a frame *)

\* The running state of a frame: the state of an operation, and the calls main
\* has made in the frame so far.  A fault (an index out of range: a
\* panic) ends the frame's draws where it happens.
FrameStart ==
    [buffer |-> buffer, zbuffer |-> zbuffer, offered |-> offered,
     cov |-> {}, shaded |-> {}, fault |-> FALSE, calls |-> main.calls]

Called(st, call) == [st EXCEPT !.calls = Append(@, call)]

\* framebuffer.clear(Color::new(5, 5, 15))
frame_clear(st) ==
    Called([clear(st, Color(5, 5, 15)) EXCEPT !.offered = NoOffers], "clear")

\* `as usize` of an f32: the integer part, 0 for NaN and negative values, the
\* largest value (here any value past the screen) for +infinity.
AsUsizeF32(f) ==
    IF is_finite(f) THEN (IF f[1] >= 0 THEN f[1] \div f[2] ELSE 0)
    ELSE IF f = INFINITY THEN Pow2(30) ELSE 0

\* Skybox::render: the size x size block of a star at (screen_x, screen_y),
\* from its n-th pixel on (dx = n / size, dy = n % size).
RECURSIVE star_block(_, _, _, _, _, _)
star_block(st, screen_x, screen_y, size, color, n) ==
    IF st.fault \/ n >= size * size THEN st
    ELSE star_block(
             IF screen_x + (n \div size) < W /\ screen_y + (n % size) < H
             THEN traced_set_pixel(st, screen_x + (n \div size), screen_y + (n % size),
                                   color, Rat(999, 1000), "skybox")
             ELSE st,
             screen_x, screen_y, size, color, n + 1)

\* Skybox::render: a star whose clip position has w > 0, from ndc on.
star_ndc(st, star, ndc) ==
    IF FLt(ndc[3], MinusOne) \/ FGt(ndc[3], One) THEN st
    ELSE IF /\ AsUsizeF32(FMul(FMul(FAdd(ndc[1], One), Half), Rat(W, 1))) < W
            /\ AsUsizeF32(FMul(FMul(FSub(One, ndc[2]), Half), Rat(H, 1))) < H
    THEN star_block(st,
                    AsUsizeF32(FMul(FMul(FAdd(ndc[1], One), Half), Rat(W, 1))),
                    AsUsizeF32(FMul(FMul(FSub(One, ndc[2]), Half), Rat(H, 1))),
                    star.size,
                    Color(star.brightness, star.brightness, star.brightness), 0)
    ELSE st

\* Skybox::render, from the i-th star on; a star is given by its clip position
\* vp * (direction * 10000), its brightness and its size.
RECURSIVE skybox_stars(_, _, _)
skybox_stars(st, stars, i) ==
    IF st.fault \/ i >= Len(stars) THEN st
    ELSE skybox_stars(
             IF FLe(stars[i + 1].clip_pos[4], Zero) THEN st
             ELSE star_ndc(st, stars[i + 1],
                           [k \in 1 .. 3 |-> FDiv(stars[i + 1].clip_pos[k],
                                                  stars[i + 1].clip_pos[4])]),
             stars, i + 1)

\* skybox.render(&mut framebuffer, ...)
skybox_render(st, stars) == skybox_stars(Called(st, "skybox.render"), stars, 0)

\* orbit_color of main
orbit_color(body_type) ==
    IF body_type = "Moon" THEN Color(80, 80, 100) ELSE Color(100, 100, 150)

\* `for body in celestial_bodies` of the orbits, from the i-th body on.  A body
\* carries its orbit_points already moved to parent_pos.
RECURSIVE orbits_loop(_, _, _)
orbits_loop(st, celestial_bodies, i) ==
    IF st.fault \/ i >= Len(celestial_bodies) THEN st
    ELSE orbits_loop(
             IF celestial_bodies[i + 1].body_type \in {"Asteroid", "Star"} THEN st
             ELSE render_orbit(Called(st, "render_orbit"),
                               celestial_bodies[i + 1].orbit_points,
                               orbit_color(celestial_bodies[i + 1].body_type)),
             celestial_bodies, i + 1)

\* if show_orbits { ... }
draw_orbits(st, show_orbits, celestial_bodies) ==
    IF show_orbits THEN orbits_loop(st, celestial_bodies, 0) ELSE st

\* The shader main picks for a body.
body_shader(body) ==
    CASE body.body_type = "Star" -> "sun"
      [] body.body_type = "Ring" -> "ring"
      [] body.body_type = "Asteroid" -> "dust"
      [] OTHER -> "rock"

\* The two `continue`s of the body loop.  A body is on the camera axis at
\* view-space z = view_z, so that dist = |view_z|.
body_skipped(body) ==
    \/ FLt(FAbs(body.view_z), FMul(body.radius, Rat(3, 2)))
    \/ ~is_in_frustum(<<Zero, Zero, body.view_z>>, perspective_on_axis(body.view_z),
                      body.radius)

\* The ring drawn with Saturn.
saturn_ring(st, body) ==
    IF ~st.fault /\ body.name = "Saturno" /\ FLt(FAbs(body.view_z), FMul(body.radius, Rat(50, 1)))
    THEN render_mesh(Called(st, "render_mesh"), body.ring_mesh, "ring")
    ELSE st

\* `for (i, body) in celestial_bodies` of the bodies, from the i-th body on.  A
\* body carries its mesh already chosen by get_sphere_lod.
RECURSIVE draw_bodies(_, _, _)
draw_bodies(st, celestial_bodies, i) ==
    IF st.fault \/ i >= Len(celestial_bodies) THEN st
    ELSE draw_bodies(
             IF body_skipped(celestial_bodies[i + 1]) THEN st
             ELSE saturn_ring(render_mesh(Called(st, "render_mesh"),
                                          celestial_bodies[i + 1].mesh,
                                          body_shader(celestial_bodies[i + 1])),
                              celestial_bodies[i + 1]),
             celestial_bodies, i + 1)

\* ShipTrail::render: the colour of segment i of a trail of len positions.
\* (i / len * 255 and 100 * (alpha / 255) are f32 products truncated to u8; for
\* the trails of the model the truncation is that of the exact value.)
trail_color(i, len) ==
    Color((100 * ((255 * i) \div len)) \div 255, (200 * ((255 * i) \div len)) \div 255, 255)

\* ShipTrail::render: `for i in 0..self.positions.len() - 1`, from i on.
RECURSIVE trail_loop(_, _, _)
trail_loop(st, positions, i) ==
    IF st.fault \/ i >= Len(positions) - 1 THEN st
    ELSE trail_loop(render_line(Called(st, "render_line"), positions[i + 1],
                                positions[i + 2], trail_color(i, Len(positions))),
                    positions, i + 1)

\* if show_trail { ship_trail.render(...) }
trail_render(st, show_trail, positions) ==
    IF show_trail /\ Len(positions) >= 2 THEN trail_loop(st, positions, 0) ELSE st

\* if camera.third_person { if let Some(ship) = &ship_mesh { match proximity_mode ... } }
draw_ship(st, third_person, ship_mesh, proximity_mode) ==
    IF ~third_person \/ ~ship_mesh.some THEN st
    ELSE CASE proximity_mode = "Critical" ->
                  render_mesh_overlay(Called(st, "render_mesh_overlay"), ship_mesh.p, "metal")
           [] proximity_mode = "Close" ->
                  render_mesh_with_bias(Called(st, "render_mesh_with_bias"), ship_mesh.p,
                                        "metal", Rat(-1, 2))
           [] proximity_mode = "Normal" ->
                  render_mesh_with_bias(Called(st, "render_mesh_with_bias"), ship_mesh.p,
                                        "metal", Rat(-1, 20))

\* u16 and u8 arithmetic: products and sums wrap at the width, `as u8` truncates.
U16(n) == n % 65536
U8(n) == n % 256

\* blend_pixel with inv_alpha = 256 - alpha.
mut_blend_channel_inv_256(existing, channel, alpha_u8) ==
    U8(U16(U16(existing * (256 - alpha_u8)) + U16(channel * alpha_u8)) \div 255)

\* blend_pixel of warp_effect.rs, one channel:
\* ((existing as u16 * inv_alpha as u16 + channel as u16 * alpha as u16) / 255) as u8
blend_channel(existing, channel, alpha_u8) ==
    U8(U16(U16(existing * (255 - alpha_u8)) + U16(channel * alpha_u8)) \div 255)

\* blend_pixel of warp_effect.rs: the three colour bytes of an in-bounds pixel;
\* the alpha byte and the depth are left alone.
blend_pixel(st, x, y, color, alpha_u8) ==
    IF x >= W \/ y >= H THEN st
    ELSE [st EXCEPT !.buffer =
             [b \in Bytes |->
                 IF b \div 4 = y * W + x /\ b % 4 < 3
                 THEN blend_channel(@[b], color[(b % 4) + 1], alpha_u8)
                 ELSE @[b]]]

\* draw_star of warp_effect.rs, from the n-th pixel of the size x size block
\* on (dy = n / size, dx = n % size).
RECURSIVE draw_star(_, _, _, _, _, _)
draw_star(st, x, y, color, size, n) ==
    IF st.fault \/ n >= size * size THEN st
    ELSE draw_star(
             IF x + (n % size) < W /\ y + (n \div size) < H
             THEN traced_set_pixel(st, x + (n % size), y + (n \div size), color, Zero, "warp")
             ELSE st,
             x, y, color, size, n + 1)

\* WarpEffect::render: the radial lines.  What the sines, the square roots and
\* atan2 of the effect select is given with the frame: `lines` are the pixels
\* with normalized_dist > 0.3, line_pattern > 0.7 and alpha > 30, each with its
\* alpha, and `color` is the colour the intensity gives.
RECURSIVE warp_lines(_, _, _, _)
warp_lines(st, lines, color, i) ==
    IF st.fault \/ i >= Len(lines) THEN st
    ELSE warp_lines(blend_pixel(st, lines[i + 1].x, lines[i + 1].y, color,
                                lines[i + 1].alpha),
                    lines, color, i + 1)

\* WarpEffect::render: the white flash over every pixel, from pixel n on.
RECURSIVE warp_fade(_, _, _)
warp_fade(st, fade_alpha, n) ==
    IF st.fault \/ fade_alpha = 0 \/ n >= W * H THEN st
    ELSE warp_fade(blend_pixel(st, n % W, n \div W, Color(255, 255, 255), fade_alpha),
                   fade_alpha, n + 1)

\* WarpEffect::render: the stars whose position is on the screen, from the
\* i-th on.
RECURSIVE warp_stars(_, _, _)
warp_stars(st, stars, i) ==
    IF st.fault \/ i >= Len(stars) THEN st
    ELSE warp_stars(draw_star(st, stars[i + 1][1], stars[i + 1][2],
                              Color(200, 220, 255), 2, 0),
                    stars, i + 1)

\* warp_effect.render(&mut framebuffer)
warp_render(st, warp) ==
    IF ~warp.active THEN Called(st, "warp_effect.render")
    ELSE warp_stars(warp_fade(warp_lines(Called(st, "warp_effect.render"),
                                         warp.lines, warp.color, 0),
                              warp.fade_alpha, 0),
                    warp.stars, 0)

----------------------------------------------------------------------------
(* One frame of main: SpecFrame *)

\* The scene.  Stars of the skybox by clip position: on the screen at (0, 0)
\* and at (3W/4, 3H/4), behind the camera, and left of the screen.
Star(cx, cy, cz, cw, brightness, size) ==
    [clip_pos |-> <<Rat(cx, 1), Rat(cy, 1), Rat(cz, 1), Rat(cw, 1)>>,
     brightness |-> brightness, size |-> size]

Stars ==
    <<Star(-2, 2, 2, 2, 200, 1), Star(1, -1, 0, 2, 150, 2),
      Star(0, 0, 0, -2, 254, 1), Star(-6, 0, 0, 2, 180, 1)>>

Body(body_type, name, radius, view_z, mesh, orbit_points) ==
    [body_type |-> body_type, name |-> name, radius |-> Rat(radius, 1),
     view_z |-> Rat(view_z, 1), mesh |-> mesh, orbit_points |-> orbit_points,
     ring_mesh |-> Mesh(SlopePool, <<0, 1, 2>>)]

\* The sun and Saturn in view, a moon behind the camera, an asteroid the
\* camera is inside of.
Bodies ==
    <<Body("Star", "Sol", 100, -1000, Mesh(FarPool, <<0, 1, 2>>), <<>>),
      Body("Planet", "Saturno", 20, -200, Mesh(MidPool, <<0, 1, 3>>), <<PtA, PtC, PtB>>),
      Body("Moon", "Luna", 1, 10, Mesh(NearPool, <<0, 1, 2>>), <<PtC, PtB>>),
      Body("Asteroid", "Asteroide", 100, -40, Mesh(NearPool, <<0, 1, 3>>), <<PtA, PtB>>)>>

\* Saturn alone, too far for its ring.
FarBodies ==
    <<Body("Planet", "Saturno", 20, -5000, Mesh(FarPool, <<0, 1, 3>>), <<PtA, PtB>>)>>

\* ship_mesh: the model loaded before the loop.
ShipMesh == Some(Mesh(GrazingPool, <<0, 1, 2>>))

\* The warp effect: idle; at progress 0.0025 (a faint flash and two stars near
\* the centre); at progress 0.5 (full intensity, one pixel of a radial line).
WarpIdle ==
    [active |-> FALSE, color |-> Color(100, 150, 255), lines |-> <<>>,
     fade_alpha |-> 0, stars |-> <<>>]
WarpStarting ==
    [active |-> TRUE, color |-> Color(100, 150, 255), lines |-> <<>>,
     fade_alpha |-> 5, stars |-> <<<<3, 2>>, <<2, 3>>>>]
WarpHalfWay ==
    [active |-> TRUE, color |-> Color(255, 255, 255),
     lines |-> <<[x |-> 1, y |-> 0, alpha |-> 53]>>, fade_alpha |-> 0, stars |-> <<>>]

Frame(show_orbits, show_trail, third_person, proximity_mode, bodies, trail, warp) ==
    [show_orbits |-> show_orbits, show_trail |-> show_trail,
     third_person |-> third_person, proximity_mode |-> proximity_mode,
     bodies |-> bodies, trail |-> trail, warp |-> warp]

\* What the first part of an iteration (input, simulation, camera, trail and
\* warp updates) can leave for the draws of the frame.
Frames ==
    {Frame(TRUE, TRUE, TRUE, "Normal", Bodies, <<PtB, PtC, PtA>>, WarpIdle),
     Frame(TRUE, TRUE, TRUE, "Critical", Bodies, <<PtB, PtC, PtA>>, WarpIdle),
     Frame(TRUE, TRUE, TRUE, "Close", Bodies, <<PtB, PtC>>, WarpIdle),
     Frame(FALSE, TRUE, FALSE, "Normal", Bodies, <<PtA>>, WarpIdle),
     Frame(TRUE, FALSE, TRUE, "Critical", FarBodies, <<PtB, PtC, PtA>>, WarpStarting),
     Frame(FALSE, FALSE, TRUE, "Normal", FarBodies, <<>>, WarpHalfWay),
     Frame(TRUE, TRUE, FALSE, "Close", Bodies, <<PtBehind, PtB, PtOut>>, WarpHalfWay),
     Frame(FALSE, TRUE, TRUE, "Critical", Bodies, <<PtA, PtB>>, WarpStarting)}

\* An iteration with the ship drawn before the bodies.
mut_stage_after_ship_first(stage) ==
    CASE stage = "update" -> "clear"
      [] stage = "clear" -> "skybox"
      [] stage = "skybox" -> "orbits"
      [] stage = "orbits" -> "ship"
      [] stage = "ship" -> "bodies"
      [] stage = "bodies" -> "trail"
      [] stage = "trail" -> "warp"
      [] stage = "warp" -> "texture"
      [] stage = "texture" -> "update"

\* The statements of the loop body in program order: what follows each part.
stage_after(stage) ==
    CASE stage = "update" -> "clear"
      [] stage = "clear" -> "skybox"
      [] stage = "skybox" -> "orbits"
      [] stage = "orbits" -> "bodies"
      [] stage = "bodies" -> "trail"
      [] stage = "trail" -> "ship"
      [] stage = "ship" -> "warp"
      [] stage = "warp" -> "texture"
      [] stage = "texture" -> "update"

\* The first part of an iteration; the calls of the new frame start empty.
Update(frame) ==
    /\ main.pc = "update"
    /\ main' = [main EXCEPT !.pc = stage_after("update"), !.frame = frame, !.calls = <<>>]
    /\ last' = [op |-> "update"]
    /\ pre' = FB
    /\ UNCHANGED <<buffer, zbuffer, ops, offered>>

\* A drawing part of an iteration, ending in the state st.
RunStage(stage, st) ==
    /\ main.pc = stage
    /\ buffer' = st.buffer
    /\ zbuffer' = st.zbuffer
    /\ offered' = st.offered
    /\ pre' = FB
    /\ ops' = IF stage = "clear" THEN 0 ELSE ops + (Len(st.calls) - Len(main.calls))
    /\ last' = [op |-> stage]
    /\ main' = [main EXCEPT !.pc = stage_after(stage), !.calls = st.calls]

ClearStage == RunStage("clear", frame_clear(FrameStart))
SkyboxStage == RunStage("skybox", skybox_render(FrameStart, Stars))
OrbitsStage ==
    RunStage("orbits", draw_orbits(FrameStart, main.frame.show_orbits, main.frame.bodies))
BodiesStage == RunStage("bodies", draw_bodies(FrameStart, main.frame.bodies, 0))
TrailStage ==
    RunStage("trail", trail_render(FrameStart, main.frame.show_trail, main.frame.trail))
ShipStage ==
    RunStage("ship", draw_ship(FrameStart, main.frame.third_person, ShipMesh,
                               main.frame.proximity_mode))
WarpStage == RunStage("warp", warp_render(FrameStart, main.frame.warp))

\* texture.update_texture(framebuffer.as_bytes())
UpdateTexture ==
    /\ main.pc = "texture"
    /\ main' = [main EXCEPT !.pc = stage_after("texture"), !.texture = buffer,
                            !.calls = Append(@, "update_texture")]
    /\ last' = [op |-> "update_texture"]
    /\ pre' = FB
    /\ UNCHANGED <<buffer, zbuffer, ops, offered>>

NextFrame ==
    \/ \E frame \in Frames : Update(frame)
    \/ ClearStage
    \/ SkyboxStage
    \/ OrbitsStage
    \/ BodiesStage
    \/ TrailStage
    \/ ShipStage
    \/ WarpStage
    \/ UpdateTexture

SpecFrame == Init /\ [][NextFrame]_vars

\* The place of a call in the order clear, skybox, orbits, bodies, trail, ship,
\* warp effect, texture.
PlaceOf(call) ==
    CASE call = "clear" -> 0
      [] call = "skybox.render" -> 1
      [] call = "render_orbit" -> 2
      [] call = "render_mesh" -> 3
      [] call = "render_line" -> 4
      [] call \in {"render_mesh_with_bias", "render_mesh_overlay"} -> 5
      [] call = "warp_effect.render" -> 6
      [] call = "update_texture" -> 7

Times(call) == Cardinality({k \in 1 .. Len(main.calls) : main.calls[k] = call})

\* C18: in every iteration of the main loop the framebuffer is cleared once and
\* before any draw of the frame; the draws run in the order skybox, orbits,
\* bodies (standard policy), trail, ship (biased or overlay), warp effect; the
\* ship's overlay draw comes after every standard-policy draw of the frame; and
\* the framebuffer is handed to the texture only after all draws of the frame,
\* the texture then holding the bytes of the framebuffer.
C18_FrameOrder ==
    /\ main.calls # <<>> => main.calls[1] = "clear"
    /\ Times("clear") <= 1
    /\ main.pc \notin {"update", "clear"} => Times("clear") = 1
    /\ \A j \in 1 .. Len(main.calls), k \in 1 .. Len(main.calls) :
           j < k =>
               /\ PlaceOf(main.calls[j]) <= PlaceOf(main.calls[k])
               /\ main.calls[j] = "render_mesh_overlay" => main.calls[k] # "render_mesh"
               /\ main.calls[j] # "update_texture"
    /\ last.op = "update_texture" =>
           /\ main.texture = buffer
           /\ Times("clear") = 1 /\ Times("skybox.render") = 1
           /\ Times("warp_effect.render") = 1 /\ Times("update_texture") = 1

\* A frame handed to the texture in which orbits, bodies, the trail and the
\* ship's overlay were drawn, the ship showing in the texture blended over
\* Saturn's ring.
C18_Witness ==
    /\ last.op = "update_texture"
    /\ Times("render_orbit") >= 1 /\ Times("render_mesh") >= 2
    /\ Times("render_line") >= 1 /\ Times("render_mesh_overlay") = 1
    /\ main.texture = buffer
    /\ \E i \in Pixels :
           rgb_at(FB, i) = [c \in 1 .. 3 |-> blend(fragment("metal")[c], fragment("ring")[c])]

----------------------------------------------------------------------------
(* Renderer::draw_line, iteration by iteration: SpecBresenham *)

\* The locals of draw_line before its loop, for the integer points (x0, y0)
\* and (x1, y1); `visited` and `pixels` are history: the points the loop has
\* been at, and the set_pixel calls it has made.
line_locals(x0, y0, x1, y1) ==
    [op |-> "draw_line", from |-> <<x0, y0>>, x0 |-> x0, y0 |-> y0, x1 |-> x1, y1 |-> y1,
     dx |-> Abs(x1 - x0), dy |-> -Abs(y1 - y0),
     sx |-> IF x0 < x1 THEN 1 ELSE -1, sy |-> IF y0 < y1 THEN 1 ELSE -1,
     err |-> Abs(x1 - x0) - Abs(y1 - y0),
     broke |-> FALSE, visited |-> <<>>, pixels |-> <<>>]

\* The loop body after the break test, with the step on x always taken.
mut_line_advance_always_x(l) ==
    [l EXCEPT !.err = (IF 2 * l.err <= l.dx THEN l.err + l.dy + l.dx ELSE l.err + l.dy),
              !.x0 = l.x0 + l.sx,
              !.y0 = IF 2 * l.err <= l.dx THEN l.y0 + l.sy ELSE l.y0]

\* The loop body after the break test: e2 = 2 * err and the two steps.
line_advance(l) ==
    [l EXCEPT !.err = (IF 2 * l.err >= l.dy THEN l.err + l.dy ELSE l.err)
                      + (IF 2 * l.err <= l.dx THEN l.dx ELSE 0),
              !.x0 = IF 2 * l.err >= l.dy THEN l.x0 + l.sx ELSE l.x0,
              !.y0 = IF 2 * l.err <= l.dx THEN l.y0 + l.sy ELSE l.y0]

\* The loop body up to the break test: the pixel, when it is on the screen.
line_inside(l) == l.x0 >= 0 /\ l.x0 < W /\ l.y0 >= 0 /\ l.y0 < H

line_visit(l) ==
    [l EXCEPT !.visited = Append(@, <<l.x0, l.y0>>),
              !.pixels = IF line_inside(l)
                         THEN Append(@, [x |-> l.x0, y |-> l.y0, depth |-> Zero])
                         ELSE @,
              !.broke = (l.x0 = l.x1 /\ l.y0 = l.y1)]

\* Integer screen points: the screen and one pixel around it.
LineXs == -1 .. W
LineYs == -1 .. H

\* draw_line is entered (on a cleared frame).
DrawLineEnter(x0, y0, x1, y1, color) ==
    /\ last.op = "clear"
    /\ last' = line_locals(x0, y0, x1, y1) @@ [color |-> color]
    /\ UNCHANGED <<buffer, zbuffer, ops, pre, offered, main>>

\* One iteration of the loop of draw_line.
DrawLineIterate ==
    /\ last.op = "draw_line"
    /\ ~last.broke
    /\ Finish(IF line_inside(last)
              THEN traced_set_pixel(Start, last.x0, last.y0, last.color, Zero, "line")
              ELSE Start)
    /\ last' = IF line_visit(last).broke THEN line_visit(last)
               ELSE line_advance(line_visit(last))
    /\ UNCHANGED ops

\* draw_line has returned; the next frame begins.
DrawLineReturn ==
    /\ last.op = "draw_line"
    /\ last.broke
    /\ ClearFrame

NextBresenham ==
    \/ last.op = "new" /\ ClearFrame
    \/ \E x0 \in LineXs, y0 \in LineYs, x1 \in LineXs, y1 \in LineYs :
           DrawLineEnter(x0, y0, x1, y1, Color(100, 100, 150))
    \/ DrawLineIterate
    \/ DrawLineReturn

SpecBresenham == Init /\ [][NextBresenham]_vars

\* max(|x1 - x0|, |y1 - y0|) + 1 of the line in progress.
LineLength == Max2(last.dx, -last.dy) + 1

\* C22: for every pair of integer screen points the loop of draw_line ends
\* after at most max(|x1-x0|, |y1-y0|)+1 iterations, is at the start point
\* first and at the end point last, moves by at most one pixel on each axis per
\* iteration, and calls set_pixel only for visited points inside the
\* framebuffer, always with depth 0.0.
C22_LineLoop ==
    last.op = "draw_line" =>
        /\ Len(last.visited) <= LineLength
        /\ last.visited # <<>> => last.visited[1] = last.from
        /\ last.broke <=> (/\ last.visited # <<>>
                           /\ last.visited[Len(last.visited)] = <<last.x1, last.y1>>)
        /\ \A k \in 1 .. Len(last.visited) - 1 :
               /\ Abs(last.visited[k + 1][1] - last.visited[k][1]) <= 1
               /\ Abs(last.visited[k + 1][2] - last.visited[k][2]) <= 1
        /\ \A k \in 1 .. Len(last.pixels) :
               /\ last.pixels[k].depth = Zero
               /\ last.pixels[k].x \in 0 .. W - 1 /\ last.pixels[k].y \in 0 .. H - 1
               /\ \E j \in 1 .. Len(last.visited) :
                      last.visited[j] = <<last.pixels[k].x, last.pixels[k].y>>
        /\ \A i \in Pixels :
               zbuffer[i] # INFINITY =>
                   \E k \in 1 .. Len(last.pixels) :
                       last.pixels[k].y * W + last.pixels[k].x = i /\ zbuffer[i] = Zero

\* A line that has ended after entering the screen from outside, steep and
\* leftwards: from (W, -1) to (W - 2, H - 1).
C22_Witness ==
    /\ last.op = "draw_line"
    /\ last.broke
    /\ last.from = <<W, -1>> /\ last.x1 = W - 2 /\ last.y1 = H - 1
    /\ Len(last.visited) = H + 1
    /\ Len(last.pixels) = H
    /\ zbuffer[(H - 1) * W + (W - 2)] = Zero

----------------------------------------------------------------------------
(* Every kind of draw on one frame: SpecDepth *)

\* Triangles whose depth runs over the whole range [-1, 1], and one at -1/2.
DepthMeshes == {Mesh(SlopePool, <<0, 1, 2>>), Mesh(SlopePool, <<0, 1, 3>>)}

\* Biases: main's -0.5, one that pushes fragments past the far plane, and NaN.
AnyBiases == {Rat(-1, 2), Rat(3, 2), NaN}

\* skybox.render as a draw call of a frame.
SkyboxRender(stars) ==
    /\ ops < MaxOps
    /\ last.op # "new"
    /\ Finish(skybox_stars(Start, stars, 0))
    /\ ops' = ops + 1
    /\ last' = [op |-> "skybox.render", stars |-> stars]

NextDepth ==
    \/ ClearFrame
    \/ \E mesh \in DepthMeshes : RenderMesh(mesh, "rock")
    \/ \E mesh \in DepthMeshes, depth_bias \in AnyBiases :
           RenderMeshWithBias(mesh, "metal", depth_bias)
    \/ RenderMeshOverlay(Mesh(NearPool, <<0, 1, 2>>), "steel")
    \/ RenderLine(PtC, PtB, Color(0, 0, 255))
    \/ RenderOrbit(<<PtA, PtC, PtB>>, Color(100, 100, 150))
    \/ SkyboxRender(Stars)

SpecDepth == Init /\ [][NextDepth]_vars

\* C23: in every state reached after clear() by renderer draws (render_mesh,
\* render_mesh_with_bias with any bias, render_mesh_overlay, render_line,
\* render_orbit) and skybox draws, every depth-buffer entry is +infinity or a
\* finite value in [-1, 1], and every pixel's alpha byte is 255.
C23_DepthRangeAndAlpha ==
    last.op # "new" =>
        \A i \in Pixels :
            /\ \/ zbuffer[i] = INFINITY
               \/ /\ is_finite(zbuffer[i])
                  /\ FGe(zbuffer[i], MinusOne) /\ FLe(zbuffer[i], One)
            /\ alpha_at(FB, i) = 255

\* A biased draw over the skybox: a biased depth below -1/2 is stored at a
\* pixel, and a fragment whose biased depth fell below -1 left its pixel with
\* the depth 0.999 of a star.
C23_Witness ==
    /\ last.op = "render_mesh_with_bias"
    /\ last.depth_bias = Rat(-1, 2)
    /\ \E i \in Pixels : is_finite(zbuffer[i]) /\ FLt(zbuffer[i], Rat(-1, 2))
    /\ \E e \in last.cov :
           /\ FLt(FAdd(e.depth, last.depth_bias), MinusOne)
           /\ zbuffer[e.index] = Rat(999, 1000)

----------------------------------------------------------------------------
(* blend_pixel of the warp effect on its own: SpecPixel *)

\* Channel values at the ends and the middle of the u8 range.
BlendColors ==
    {Color(0, 255, 128), Color(255, 0, 127), Color(255, 255, 254), Color(0, 1, 255)}
BlendAlphas == {0, 1, 127, 128, 254, 255}
\* What the frame drew where the effect blends.
PutColors == {Color(255, 255, 0), Color(0, 127, 255)}
\* Two pixels, and the first column and row outside.
BlendCoords == {<<0, 0>>, <<W - 1, H - 1>>, <<W, 0>>, <<0, H>>}

\* A pixel drawn by the frame before the effect blends over it.
PutPixel(x, y, color) ==
    /\ ops < MaxOps
    /\ last.op # "new"
    /\ Finish(traced_set_pixel(Start, x, y, color, Zero, "set_pixel"))
    /\ ops' = ops + 1
    /\ last' = [op |-> "set_pixel", x |-> x, y |-> y, color |-> color]

\* blend_pixel(framebuffer, x, y, color, alpha)
BlendPixel(x, y, color, alpha_u8) ==
    /\ ops < MaxOps
    /\ last.op # "new"
    /\ Finish(blend_pixel(Start, x, y, color, alpha_u8))
    /\ ops' = ops + 1
    /\ last' = [op |-> "blend_pixel", x |-> x, y |-> y, color |-> color,
                alpha |-> alpha_u8]

NextPixel ==
    \/ ClearFrame
    \/ \E c \in BlendCoords, color \in PutColors : PutPixel(c[1], c[2], color)
    \/ \E c \in BlendCoords, color \in BlendColors, a \in BlendAlphas :
           BlendPixel(c[1], c[2], color, a)

SpecPixel == Init /\ [][NextPixel]_vars

\* The intermediate of a channel before any wrapping.
BlendSum(existing, channel, alpha_u8) == existing * (255 - alpha_u8) + channel * alpha_u8

Least(a, b) == IF a < b THEN a ELSE b
Greatest(a, b) == IF a < b THEN b ELSE a

\* C30: blend_pixel(x, y, color, alpha): for each colour channel the 16-bit
\* intermediate existing*(255-alpha) + color*alpha is at most 65535, the new
\* channel lies between min(existing, color) and max(existing, color), alpha 0
\* leaves it unchanged and alpha 255 gives the new colour; the depth buffer and
\* the alpha bytes are unchanged, no other pixel changes, and coordinates
\* outside the framebuffer change nothing.
C30_BlendPixel ==
    last.op = "blend_pixel" =>
        /\ zbuffer = pre.zbuffer
        /\ \A i \in Pixels : alpha_at(FB, i) = alpha_at(pre, i)
        /\ \A b \in Bytes :
               IF last.x < W /\ last.y < H /\ b \div 4 = last.y * W + last.x /\ b % 4 < 3
               THEN /\ BlendSum(pre.buffer[b], last.color[(b % 4) + 1], last.alpha) <= 65535
                    /\ buffer[b] >= Least(pre.buffer[b], last.color[(b % 4) + 1])
                    /\ buffer[b] <= Greatest(pre.buffer[b], last.color[(b % 4) + 1])
                    /\ last.alpha = 0 => buffer[b] = pre.buffer[b]
                    /\ last.alpha = 255 => buffer[b] = last.color[(b % 4) + 1]
               ELSE buffer[b] = pre.buffer[b]

\* A half-transparent blend of 0 over a channel of 255 (the largest sums), and
\* a blend at alpha 0 over 255 in the same call.
C30_Witness ==
    /\ last.op = "blend_pixel"
    /\ last.x < W /\ last.y < H
    /\ last.alpha = 128
    /\ last.color = Color(0, 255, 128)
    /\ pre.buffer[4 * (last.y * W + last.x)] = 255
    /\ buffer[4 * (last.y * W + last.x)] = 127
    /\ buffer[4 * (last.y * W + last.x) + 1] = 255

----------------------------------------------------------------------------
(* SpaceshipCamera::update and the speed modes: SpecCamera *)

\* KEY_F: if rl.is_key_pressed(KeyboardKey::KEY_F) { ... }
press_f(camera, keys) ==
    IF "F" \notin keys THEN camera
    ELSE [camera EXCEPT !.warp_mode = ~camera.warp_mode,
                        !.hyper_warp = FALSE,
                        !.warp_multiplier =
                            IF ~camera.warp_mode THEN Rat(50, 1) ELSE Rat(1, 1)]

\* KEY_G with the line `self.warp_mode = false` left out.
mut_press_g_keeps_warp_mode(camera, keys) ==
    IF "G" \notin keys THEN camera
    ELSE [camera EXCEPT !.hyper_warp = ~camera.hyper_warp,
                        !.warp_multiplier =
                            IF ~camera.hyper_warp THEN Rat(500, 1) ELSE Rat(1, 1)]

\* KEY_G: if rl.is_key_pressed(KeyboardKey::KEY_G) { ... }
press_g(camera, keys) ==
    IF "G" \notin keys THEN camera
    ELSE [camera EXCEPT !.hyper_warp = ~camera.hyper_warp,
                        !.warp_mode = FALSE,
                        !.warp_multiplier =
                            IF ~camera.hyper_warp THEN Rat(500, 1) ELSE Rat(1, 1)]

\* KEY_H: if rl.is_key_pressed(KeyboardKey::KEY_H) { let ultra = ...; ... }
press_h(camera, keys) ==
    IF "H" \notin keys THEN camera
    ELSE [camera EXCEPT !.hyper_warp = FALSE,
                        !.warp_mode = FALSE,
                        !.warp_multiplier =
                            IF ~camera.hyper_warp /\ ~camera.warp_mode
                            THEN Rat(5000, 1) ELSE Rat(1, 1)]

\* KEY_C: the third-person toggle.
press_c(camera, keys) ==
    IF "C" \notin keys THEN camera ELSE [camera EXCEPT !.third_person = ~@]

\* The camera as KEY_H finds it: after the F and G blocks of the same update.
before_h(camera, keys) == press_g(press_f(camera, keys), keys)

\* SpaceshipCamera::update(rl): the key blocks in program order, then the
\* movement.  The velocity, the drag, the key-driven thrust and the smoothed
\* position are not followed: the position the movement leaves is an input.
camera_update(camera, keys, position) ==
    [press_c(press_h(before_h(camera, keys), keys), keys) EXCEPT !.position = position]

\* SpaceshipCamera::get_speed_mode
get_speed_mode(camera) ==
    IF FGe(camera.warp_multiplier, Rat(5000, 1)) THEN "ULTRA WARP"
    ELSE IF camera.hyper_warp THEN "HYPER WARP"
    ELSE IF camera.warp_mode THEN "WARP"
    ELSE "IMPULSO"

SpeedKeys == SUBSET {"F", "G", "H"} \cup {{"C"}, {"C", "F", "G", "H"}}
\* Where the movement of a frame can leave the camera.
CameraPositions == {Rat(8000, 1), Rat(7990, 1), Rat(150, 1)}

\* camera.update(&rl) of a frame.
CameraUpdate(keys, position) ==
    /\ main' = [main EXCEPT !.camera = camera_update(@, keys, position)]
    /\ last' = [op |-> "camera.update", keys |-> keys, camera |-> main.camera]
    /\ pre' = FB
    /\ UNCHANGED <<buffer, zbuffer, ops, offered>>

NextCamera == \E keys \in SpeedKeys, position \in CameraPositions : CameraUpdate(keys, position)

SpecCamera == Init /\ [][NextCamera]_vars

\* The flags and the multiplier agree, and get_speed_mode reports them.
SpeedModeConsistent(camera) ==
    /\ ~(camera.warp_mode /\ camera.hyper_warp)
    /\ camera.warp_multiplier = Rat(50, 1) <=> camera.warp_mode
    /\ camera.warp_multiplier = Rat(500, 1) <=> camera.hyper_warp
    /\ camera.warp_multiplier \in {Rat(1, 1), Rat(50, 1), Rat(500, 1), Rat(5000, 1)}
    /\ get_speed_mode(camera) =
           CASE camera.warp_multiplier = Rat(5000, 1) -> "ULTRA WARP"
             [] camera.warp_multiplier = Rat(500, 1) -> "HYPER WARP"
             [] camera.warp_multiplier = Rat(50, 1) -> "WARP"
             [] camera.warp_multiplier = Rat(1, 1) -> "IMPULSO"

\* A multiplier of 5000 comes from KEY_H pressed with both flags false, or was
\* there before an update without F, G or H.
UltraOnlyByH ==
    main'.camera.warp_multiplier = Rat(5000, 1) =>
        \/ /\ "H" \in last'.keys
           /\ ~before_h(main.camera, last'.keys).warp_mode
           /\ ~before_h(main.camera, last'.keys).hyper_warp
        \/ /\ main.camera.warp_multiplier = Rat(5000, 1)
           /\ last'.keys \cap {"F", "G", "H"} = {}

\* C27: after any sequence of camera updates with any of F, G and H pressed
\* (several in one frame included), warp_mode and hyper_warp are never both
\* true; warp_multiplier is 50 iff warp_mode, 500 iff hyper_warp, and otherwise
\* 1 or 5000, 5000 only after KEY_H pressed while both flags were false;
\* get_speed_mode reports ULTRA WARP, HYPER WARP, WARP or IMPULSO accordingly.
C27_SpeedModes == [](SpeedModeConsistent(main.camera)) /\ [][UltraOnlyByH]_vars

\* F and H pressed in one frame while in warp mode: F leaves warp mode, so H
\* finds both flags false and sets the multiplier to 5000.
C27_Witness ==
    /\ last.op = "camera.update"
    /\ last.keys = {"F", "H"}
    /\ last.camera.warp_mode
    /\ main.camera.warp_multiplier = Rat(5000, 1)
    /\ get_speed_mode(main.camera) = "ULTRA WARP"

----------------------------------------------------------------------------
(* ShipTrail::update and ShipTrail::clear: SpecTrail *)

\* ShipTrail::update with the newest position removed when the trail is full.
mut_trail_update_drops_newest(trail, position, time) ==
    IF FGe(FSub(time, trail.last_sample_time), trail.sample_interval)
    THEN [trail EXCEPT
              !.positions =
                  IF Len(@) + 1 > trail.max_length THEN @ ELSE Append(@, position),
              !.last_sample_time = time]
    ELSE trail

\* ShipTrail::update(position, time)
trail_update(trail, position, time) ==
    IF FGe(FSub(time, trail.last_sample_time), trail.sample_interval)
    THEN [trail EXCEPT
              !.positions =
                  IF Len(@) + 1 > trail.max_length
                  THEN Tail(Append(@, position))
                  ELSE Append(@, position),
              !.last_sample_time = time]
    ELSE trail

\* ShipTrail::clear()
trail_clear(trail) == [trail EXCEPT !.positions = <<>>]

\* Updates of the trail followed between two clears (the length of the history).
MaxSamples == 4

SamplePositions == {Rat(8000, 1), Rat(7990, 1), Rat(150, 1)}
\* Times before, at and after the sampling interval, going back and forth.
SampleTimes == {Rat(0, 1), Rat(1, 20), Rat(1, 10), Rat(3, 20), Rat(1, 5), Rat(1, 1), NaN}

\* ship_trail.update(position, time); the history keeps the trail as it was
\* and the positions accepted since the last clear.
TrailUpdate(position, time) ==
    /\ last.op \in {"new", "trail.update", "trail.clear"}
    /\ ops < MaxSamples
    /\ main' = [main EXCEPT !.ship_trail = trail_update(@, position, time)]
    /\ last' = [op |-> "trail.update", position |-> position, time |-> time,
                trail |-> main.ship_trail,
                accepted |->
                    IF main'.ship_trail = main.ship_trail /\ last.op # "new" THEN last.accepted
                    ELSE IF main'.ship_trail = main.ship_trail THEN <<>>
                    ELSE Append(IF last.op = "new" THEN <<>> ELSE last.accepted, position)]
    /\ ops' = ops + 1
    /\ pre' = FB
    /\ UNCHANGED <<buffer, zbuffer, offered>>

\* ship_trail.clear()
TrailClear ==
    /\ last.op \in {"new", "trail.update", "trail.clear"}
    /\ main' = [main EXCEPT !.ship_trail = trail_clear(@)]
    /\ last' = [op |-> "trail.clear", trail |-> main.ship_trail, accepted |-> <<>>]
    /\ ops' = 0
    /\ pre' = FB
    /\ UNCHANGED <<buffer, zbuffer, offered>>

NextTrail ==
    \/ \E position \in SamplePositions, time \in SampleTimes : TrailUpdate(position, time)
    \/ TrailClear

SpecTrail == Init /\ [][NextTrail]_vars

\* The last n elements of a sequence (all of it when it is shorter).
LastOf(seq, n) ==
    IF Len(seq) <= n THEN seq ELSE SubSeq(seq, Len(seq) - n + 1, Len(seq))

\* C28: after any sequence of ShipTrail update and clear calls the number of
\* stored positions never exceeds max_length; update appends the position iff
\* time - last_sample_time >= sample_interval (0.1) and otherwise changes
\* nothing; an append beyond max_length evicts exactly the oldest position, so
\* the stored positions are the most recent accepted samples in arrival order.
C28_Trail ==
    last.op \in {"trail.update", "trail.clear"} =>
        /\ Len(main.ship_trail.positions) <= main.ship_trail.max_length
        /\ main.ship_trail.sample_interval = Rat(1, 10)
        /\ main.ship_trail.positions = LastOf(last.accepted, main.ship_trail.max_length)
        /\ last.op = "trail.update" =>
               IF FGe(FSub(last.time, last.trail.last_sample_time), Rat(1, 10))
               THEN /\ main.ship_trail.last_sample_time = last.time
                    /\ main.ship_trail.positions =
                           IF Len(last.trail.positions) = last.trail.max_length
                           THEN Append(Tail(last.trail.positions), last.position)
                           ELSE Append(last.trail.positions, last.position)
               ELSE main.ship_trail = last.trail

\* One more accepted sample than the trail holds: the first was evicted.
C28_Witness ==
    /\ last.op = "trail.update"
    /\ Len(last.accepted) = last.trail.max_length + 1
    /\ Len(last.trail.positions) = last.trail.max_length
    /\ main.ship_trail.positions = Tail(last.accepted)
    /\ last.accepted[1] # last.accepted[2]

----------------------------------------------------------------------------
(* SpaceshipCamera::get_proximity_mode and the ship's draw: SpecProximity *)

\* (body_pos - self.position).magnitude() on the axis
distance_to(camera, body) == FAbs(FSub(body[1], camera.position))

\* SpaceshipCamera::get_proximity_mode(bodies), from the k-th body on: the
\* loop returns at the first body within its critical or its close distance.
RECURSIVE proximity_loop(_, _, _)
proximity_loop(camera, bodies, k) ==
    IF k > Len(bodies) THEN "Normal"
    ELSE IF FLt(distance_to(camera, bodies[k]), FMul(bodies[k][2], Rat(100, 1)))
         THEN "Critical"
    ELSE IF FLt(distance_to(camera, bodies[k]),
                FMul(FMul(bodies[k][2], Rat(100, 1)), Rat(2, 1)))
         THEN "Close"
    ELSE proximity_loop(camera, bodies, k + 1)

get_proximity_mode(camera, bodies) == proximity_loop(camera, bodies, 1)

\* collision_data: (centre, radius) pairs.  A body of radius 1 at 0, one of
\* radius 2 at 100, one of radius 1 at 5000.
BodyA == <<Rat(0, 1), Rat(1, 1)>>
BodyB == <<Rat(100, 1), Rat(2, 1)>>
BodyC == <<Rat(5000, 1), Rat(1, 1)>>
CollisionData ==
    {<<>>, <<BodyA>>, <<BodyB>>, <<BodyA, BodyB>>, <<BodyB, BodyA>>,
     <<BodyC, BodyA>>, <<BodyC, BodyB, BodyA>>, <<BodyA, BodyC, BodyB>>}
\* The camera at the start, in the close range of BodyA and the critical range
\* of BodyB, in the critical range of both, and in the close range of BodyC.
ProximityPositions == {Rat(8000, 1), Rat(150, 1), Rat(50, 1), Rat(4850, 1)}

\* The first part of an iteration: the mode is taken from the camera where the
\* last frame left it, then the keys and the movement are applied.
ProximityUpdate(bodies, keys, position) ==
    /\ main.pc = "update"
    /\ main' = [main EXCEPT !.pc = "ship",
                            !.frame.proximity_mode = get_proximity_mode(main.camera, bodies),
                            !.camera = camera_update(@, keys, position),
                            !.calls = <<>>]
    /\ last' = [op |-> "update", bodies |-> bodies, camera |-> main.camera]
    /\ pre' = FB
    /\ UNCHANGED <<buffer, zbuffer, ops, offered>>

\* The clear and the ship's draw of the iteration.
ShipDraw ==
    /\ main.pc = "ship"
    /\ LET st == draw_ship(frame_clear(FrameStart), main.camera.third_person, ShipMesh,
                           main.frame.proximity_mode)
       IN  /\ buffer' = st.buffer
           /\ zbuffer' = st.zbuffer
           /\ offered' = st.offered
           /\ main' = [main EXCEPT !.pc = "update", !.calls = st.calls]
    /\ pre' = FB
    /\ ops' = 1
    /\ last' = [last EXCEPT !.op = "ship"]

NextProximity ==
    \/ \E bodies \in CollisionData, keys \in {{}, {"C"}}, position \in ProximityPositions :
           ProximityUpdate(bodies, keys, position)
    \/ ShipDraw

SpecProximity == Init /\ [][NextProximity]_vars

InRange(camera, body, factor) ==
    FLt(distance_to(camera, body), FMul(body[2], Rat(factor, 1)))

\* The mode by the nearest tier of any body, whatever the order of the list.
TierOf(camera, bodies) ==
    IF \E k \in 1 .. Len(bodies) : InRange(camera, bodies[k], 100) THEN "Critical"
    ELSE IF \E k \in 1 .. Len(bodies) : InRange(camera, bodies[k], 200) THEN "Close"
    ELSE "Normal"

\* The draw call of the ship for a mode.
ShipCallOf(mode) ==
    IF mode = "Critical" THEN "render_mesh_overlay" ELSE "render_mesh_with_bias"

\* C29: get_proximity_mode returns Critical whenever at least one body is at
\* distance < 100 x its radius, Close whenever none is that near but one is at
\* distance < 200 x its radius, and Normal otherwise, whatever the order of
\* the list; the ship (in third person) is then drawn with the overlay
\* exactly when some body is in critical range, and with the bias otherwise.
C29_ProximityMode ==
    /\ last.op \in {"update", "ship"} =>
           main.frame.proximity_mode = TierOf(last.camera, last.bodies)
    /\ last.op = "ship" /\ main.camera.third_person =>
           main.calls = <<"clear", ShipCallOf(TierOf(last.camera, last.bodies))>>

\* What the code does: the mode is that of the first body of the list within
\* 200 x its radius, and the ship's draw follows the mode.
C29_FirstBodyInRange ==
    /\ last.op \in {"update", "ship"} =>
           LET within == {k \in 1 .. Len(last.bodies) : InRange(last.camera, last.bodies[k], 200)}
           IN  IF within = {} THEN main.frame.proximity_mode = "Normal"
               ELSE LET k == CHOOSE i \in within : \A j \in within : i <= j
                    IN  main.frame.proximity_mode =
                            IF InRange(last.camera, last.bodies[k], 100)
                            THEN "Critical" ELSE "Close"
    /\ last.op = "ship" /\ main.camera.third_person =>
           main.calls = <<"clear", ShipCallOf(main.frame.proximity_mode)>>

\* The camera in the close range of the first body and the critical range of
\* the second: the mode is Close and the ship is drawn with the bias.
C29_Masked ==
    /\ last.op = "ship"
    /\ main.camera.third_person
    /\ last.bodies = <<BodyA, BodyB>>
    /\ last.camera.position = Rat(150, 1)
    /\ main.frame.proximity_mode = "Close"
    /\ main.calls = <<"clear", "render_mesh_with_bias">>

----------------------------------------------------------------------------
(* WarpEffect::start_warp and WarpEffect::update: SpecWarp *)

\* f32::min: the other operand when one is NaN.
f32_min(a, b) ==
    IF is_nan(a) THEN b ELSE IF is_nan(b) THEN a ELSE IF FLt(b, a) THEN b ELSE a

\* WarpEffect::start_warp(from, to, duration)
start_warp(warp, from, to, duration) ==
    [warp EXCEPT !.active = TRUE, !.progress = Zero, !.elapsed = Zero,
                 !.start_pos = from, !.end_pos = to, !.duration = duration]

\* (-2.0 * t + 2.0).powi(3) and t * t * t, on a value.
cube(x) == FMul(FMul(x, x), x)

\* WarpEffect::smooth_step(t)
smooth_step(t) ==
    IF FLt(t, Rat(1, 2))
    THEN FMul(Rat(4, 1), cube(t))
    ELSE FSub(One, FDiv(cube(FAdd(FMul(Rat(-2, 1), t), Rat(2, 1))), Rat(2, 1)))

\* start_pos + (end_pos - start_pos) * t
current_pos(warp, t) == FAdd(warp.start_pos, FMul(FSub(warp.end_pos, warp.start_pos), t))

\* The value v handed to F, evaluated once.
Bind(v, F(_)) == CHOOSE r \in {F(x) : x \in {v}} : TRUE

\* The tail of update once elapsed and progress are assigned.
warp_advanced(warp) ==
    IF FGe(warp.progress, One)
    THEN [warp |-> [warp EXCEPT !.active = FALSE], ret |-> Some(warp.end_pos)]
    ELSE [warp |-> warp,
          ret |-> Some(Bind(smooth_step(warp.progress), LAMBDA t : current_pos(warp, t)))]

\* update with `self.elapsed = delta_time` for `self.elapsed += delta_time`.
mut_warp_update_restarts_clock(warp, delta_time) ==
    IF ~warp.active THEN [warp |-> warp, ret |-> None]
    ELSE Bind([warp EXCEPT
                  !.elapsed = delta_time,
                  !.progress = f32_min(FDiv(delta_time, warp.duration), One)],
              warp_advanced)

\* The tail of an update that ends the warp from progress 0.5 on.
ends_half_way(w) ==
    IF FGe(w.progress, Rat(1, 2))
    THEN [warp |-> [w EXCEPT !.active = FALSE], ret |-> Some(w.end_pos)]
    ELSE [warp |-> w, ret |-> Some(current_pos(w, smooth_step(w.progress)))]

\* update that ends the warp from progress 0.5 on.
mut_warp_update_ends_half_way(warp, delta_time) ==
    IF ~warp.active THEN [warp |-> warp, ret |-> None]
    ELSE Bind([warp EXCEPT
                  !.elapsed = FAdd(warp.elapsed, delta_time),
                  !.progress = f32_min(FDiv(FAdd(warp.elapsed, delta_time),
                                            warp.duration), One)],
              ends_half_way)

\* WarpEffect::update(delta_time): the object after the call and what it returns.
warp_update(warp, delta_time) ==
    IF ~warp.active THEN [warp |-> warp, ret |-> None]
    ELSE Bind([warp EXCEPT
                  !.elapsed = FAdd(warp.elapsed, delta_time),
                  !.progress = f32_min(FDiv(FAdd(warp.elapsed, delta_time),
                                            warp.duration), One)],
              warp_advanced)

\* WarpEffect::is_active
is_active(warp) == warp.active

\* rl.get_frame_time(): no time, half a second, one and three.
FrameTimes == {Rat(0, 1), Rat(1, 2), Rat(1, 1), Rat(3, 1)}
\* The durations main passes to start_warp.
Durations == {Rat(3, 2), Rat(2, 1)}
WarpPositions == {Rat(0, 1), Rat(100, 1), Rat(8000, 1)}

\* warp_effect.start_warp(from, to, duration)
StartWarp(from, to, duration) ==
    /\ last.op \in {"new", "start_warp", "warp.update"}
    /\ main' = [main EXCEPT !.warp_effect = start_warp(@, from, to, duration)]
    /\ last' = [op |-> "start_warp", warp |-> main.warp_effect]
    /\ pre' = FB
    /\ UNCHANGED <<buffer, zbuffer, ops, offered>>

\* warp_effect.update(delta_time)
WarpUpdate(delta_time) ==
    /\ last.op \in {"new", "start_warp", "warp.update"}
    /\ main' = [main EXCEPT !.warp_effect = warp_update(@, delta_time).warp]
    /\ last' = [op |-> "warp.update", warp |-> main.warp_effect,
                delta_time |-> delta_time,
                ret |-> warp_update(main.warp_effect, delta_time).ret]
    /\ pre' = FB
    /\ UNCHANGED <<buffer, zbuffer, ops, offered>>

NextWarp ==
    \/ \E from \in WarpPositions, to \in WarpPositions, duration \in Durations :
           StartWarp(from, to, duration)
    \/ \E delta_time \in FrameTimes : WarpUpdate(delta_time)

SpecWarp == Init /\ [][NextWarp]_vars

\* C24: update called while the warp is inactive returns no position and
\* changes no field; while the warp is active its progress is within [0, 1],
\* and an update never lowers it; active turns false only in the update call
\* in which progress reaches 1, and that call returns the end position given
\* to start_warp.
C24_WarpUpdate ==
    /\ main.warp_effect.active =>
           FGe(main.warp_effect.progress, Zero) /\ FLe(main.warp_effect.progress, One)
    /\ last.op = "warp.update" /\ ~last.warp.active =>
           last.ret = None /\ main.warp_effect = last.warp
    /\ last.op = "warp.update" /\ last.warp.active =>
           /\ FGe(main.warp_effect.progress, last.warp.progress)
           /\ main.warp_effect.end_pos = last.warp.end_pos
    /\ last.op \in {"start_warp", "warp.update"}
          /\ last.warp.active /\ ~main.warp_effect.active =>
           /\ last.op = "warp.update"
           /\ main.warp_effect.progress = One
           /\ last.ret = Some(last.warp.end_pos)

\* A warp from 8000 to 100 that an update of half a second carried to
\* progress 3/4 and the next one ended: it returned 100.
C24_Witness ==
    /\ last.op = "warp.update"
    /\ last.warp.active
    /\ last.warp.progress = Rat(3, 4)
    /\ last.warp.start_pos = Rat(8000, 1)
    /\ ~main.warp_effect.active
    /\ last.ret = Some(Rat(100, 1))

----------------------------------------------------------------------------
(* The first part of an iteration of main: menu, warp and control: SpecLoop *)

\* world_positions and collision_data of the frame: the bodies stand still.
CollisionBodies == <<BodyA, BodyB, BodyC>>
world_positions == [i \in 1 .. Len(CollisionBodies) |-> CollisionBodies[i][1]]

\* The three statements main makes at each teleport key.
warp_to(m, target, duration) ==
    [m EXCEPT !.warp_effect = start_warp(@, m.camera.position, target, duration),
              !.ship_trail = trail_clear(@),
              !.show_menu = FALSE,
              !.calls = @ \o <<"start_warp", "ship_trail.clear">>]

\* for i in 1..=9 { if rl.is_key_pressed(key) && i < celestial_bodies.len() ... }
RECURSIVE teleport_digits(_, _, _)
teleport_digits(m, digits, i) ==
    IF i > 9 THEN m
    ELSE Bind(IF i \in digits /\ i < Len(CollisionBodies)
              THEN warp_to(m, world_positions[i + 1], Rat(2, 1)) ELSE m,
              LAMBDA n : teleport_digits(n, digits, i + 1))

\* The branch `if show_menu`: KEY_ZERO, then the digits in order.
teleport(m, digits) ==
    Bind(IF 0 \in digits THEN warp_to(m, Zero, Rat(3, 2)) ELSE m,
         LAMBDA n : teleport_digits(n, digits, 1))

\* The body of the loop of check_collisions once distance and overlap are
\* known; on the axis to_body.normalize() is to_body / distance (NaN at
\* distance 0).
pushed_out(camera, body, distance, overlap) ==
    IF FLt(distance, FMul(body[2], Rat(5, 2))) /\ FGt(overlap, Zero)
    THEN [camera EXCEPT !.position =
             FAdd(@, FMul(FNeg(FDiv(FSub(body[1], camera.position), distance)),
                          FAdd(overlap, One)))]
    ELSE camera

\* One pass of the loop of check_collisions: safe_distance = radius * 2.5,
\* overlap = safe_distance - distance.
collide(camera, body) ==
    Bind(distance_to(camera, body),
         LAMBDA distance :
             Bind(FSub(FMul(body[2], Rat(5, 2)), distance),
                  LAMBDA overlap : pushed_out(camera, body, distance, overlap)))

\* SpaceshipCamera::check_collisions(bodies), from the k-th body on.
RECURSIVE check_collisions(_, _, _)
check_collisions(camera, bodies, k) ==
    IF k > Len(bodies) THEN camera
    ELSE Bind(collide(camera, bodies[k]),
              LAMBDA moved : check_collisions(moved, bodies, k + 1))

\* The block `if !warp_effect.is_active() { ... }` once the camera is placed.
controlled(m, camera) ==
    [m EXCEPT
        !.camera = camera,
        !.ship_trail = IF m.frame.show_trail /\ ~m.paused
                       THEN trail_update(@, camera.position, m.frame_time) ELSE @,
        !.calls = @ \o <<"camera.update", "camera.check_collisions">>
                    \o (IF m.frame.show_trail /\ ~m.paused
                        THEN <<"ship_trail.update">> ELSE <<>>)]

\* The block `if !warp_effect.is_active() { ... }`.
control(m, keys, position) ==
    Bind(camera_update(m.camera, keys, position),
         LAMBDA updated :
             Bind(check_collisions(updated, CollisionBodies, 1),
                  LAMBDA camera : controlled(m, camera)))

\* Where the loop goes after the warp's update with the manual control run
\* whatever the warp's state.
mut_after_warp_always_control(warp) == "control"

\* Where the loop goes after the warp's update: `if !warp_effect.is_active()`.
after_warp(warp) == IF ~is_active(warp) THEN "control" ELSE "update"

\* The clock of the loop is read only by ship_trail.update, as
\* time - last_sample_time; the model keeps it relative to the last sample
\* and lets it saturate at TimeCap.
TimeCap == Rat(1, 1)

\* The start of an iteration: frame_time += rl.get_frame_time() and the
\* global keys.
loop_input(m, delta_time, keys) ==
    [m EXCEPT
        !.calls = <<>>,
        !.frame_time = f32_min(FAdd(FSub(@, m.ship_trail.last_sample_time), delta_time),
                               TimeCap),
        !.ship_trail.last_sample_time = Zero,
        !.paused = IF "SPACE" \in keys THEN ~@ ELSE @,
        !.frame.show_trail = IF "T" \in keys THEN ~@ ELSE @,
        !.show_menu = IF "TAB" \in keys THEN ~@ ELSE @]

\* The else branch once the warp's update has returned r.
warp_placed(m, r) ==
    [m EXCEPT
        !.warp_effect = r.warp,
        !.camera.position = IF r.ret.some THEN r.ret.p ELSE @,
        !.calls = Append(@, "warp_effect.update"),
        !.pc = after_warp(r.warp)]

\* The else branch up to the assignment of the camera.
warp_step(m, delta_time) ==
    Bind(warp_update(m.warp_effect, delta_time), LAMBDA r : warp_placed(m, r))

\* The global keys of a frame: none, the menu, the trail.
GlobalKeys == {{}, {"TAB"}, {"T"}}
\* KEY_ZERO, the key of the last body, both, and a key past the last body.
TeleportKeys == {{}, {0}, {2}, {0, 2}, {3}}
\* rl.get_frame_time() of the loop's frames: no time, and one second.
LoopFrameTimes == {Rat(0, 1), Rat(1, 1)}
\* Where the movement of a frame can leave the camera when it moves: far from
\* every body, and within the safe distance of the second.
ControlPositions == {Rat(8000, 1), Rat(101, 1)}

\* Teleport keys pressed while a warp is under way (the variable ops counts
\* them): the user does so at most MaxRestarts times.
MaxRestarts == 1

\* An iteration down to the teleport keys (menu open) or to the warp's update
\* and the camera it places (menu closed).
LoopHead(delta_time, keys, digits) ==
    /\ main.pc = "update"
    /\ main.warp_effect.active /\ digits # {} => ops < MaxRestarts
    /\ \E m \in {loop_input(main, delta_time, keys)} :
           IF m.show_menu
           THEN /\ main' = teleport(m, digits)
                /\ last' = [op |-> "menu", ret |-> None,
                            started |-> (\E i \in digits : i < Len(CollisionBodies))]
           ELSE /\ main' = warp_step(m, delta_time)
                /\ last' = [op |-> "warp_step",
                            ret |-> warp_update(main.warp_effect, delta_time).ret,
                            started |-> FALSE]
    /\ ops' = IF main.warp_effect.active /\ digits # {} THEN ops + 1 ELSE ops
    /\ pre' = FB
    /\ UNCHANGED <<buffer, zbuffer, offered>>

\* The manual control of an iteration whose warp is not active.
Control(keys, position) ==
    /\ main.pc = "control"
    /\ main' = [control(main, keys, position) EXCEPT !.pc = "update"]
    /\ last' = [last EXCEPT !.op = "control"]
    /\ pre' = FB
    /\ UNCHANGED <<buffer, zbuffer, ops, offered>>

NextLoop ==
    \/ \E delta_time \in LoopFrameTimes, keys \in GlobalKeys, digits \in TeleportKeys :
           LoopHead(delta_time, keys, digits)
    \/ \E position \in ControlPositions \cup {main.camera.position} : Control({}, position)

SpecLoop == Init /\ [][NextLoop]_vars

\* C26: in every frame in which the warp is still active after its update,
\* camera.update, camera.check_collisions and ship_trail.update are not
\* executed and the camera is where the warp's update returned; a warp
\* started from the menu clears the trail and closes the menu in that frame.
C26_ControlLockedOut ==
    /\ last.op \in {"warp_step", "control"} /\ main.warp_effect.active =>
           /\ main.pc = "update"
           /\ main.calls = <<"warp_effect.update">>
           /\ last.ret = Some(main.camera.position)
    /\ last.op = "menu" /\ last.started =>
           /\ main.warp_effect.active
           /\ main.warp_effect.start_pos = main.camera.position
           /\ main.ship_trail.positions = <<>>
           /\ ~main.show_menu
           /\ main.pc = "update"

\* A frame in the middle of a warp: the camera is between the two ends, where
\* the update returned, and nothing else was called.
C26_Witness ==
    /\ last.op = "warp_step"
    /\ main.warp_effect.active
    /\ main.warp_effect.progress = Rat(1, 2)
    /\ main.calls = <<"warp_effect.update">>
    /\ main.camera.position =
           FAdd(main.warp_effect.start_pos,
                FMul(FSub(main.warp_effect.end_pos, main.warp_effect.start_pos), Rat(1, 2)))
    /\ main.warp_effect.start_pos # main.warp_effect.end_pos

----------------------------------------------------------------------------
(* The loop keeps running and the clock advances: SpecLoopFair *)

\* An iteration whose frame time is positive.
PositiveFrame ==
    \E delta_time \in LoopFrameTimes \ {Zero}, keys \in GlobalKeys, digits \in TeleportKeys :
        LoopHead(delta_time, keys, digits)

\* `while !rl.window_should_close()` goes on to its next statement as long as
\* the window is open, and frames of positive duration keep coming.
SpecLoopFair == SpecLoop /\ WF_vars(NextLoop) /\ SF_vars(PositiveFrame)

\* With the menu open the warp is left as it is, or started anew.
MenuLeavesWarp ==
    last'.op = "menu" =>
        \/ main'.warp_effect = main.warp_effect
        \/ /\ last'.started
           /\ main'.warp_effect.active
           /\ main'.warp_effect.elapsed = Zero
           /\ main'.warp_effect.progress = Zero

====
